---- MODULE Spec2Model ----
(***************************************************************************)
(* Model of the multi-client session and batch-execution core of the       *)
(* trading gateway: the token cache of MOFSLApiWrapper                     *)
(* (app/core/mofsl_api_wrapper.py) and the batch order endpoint            *)
(* (app/api/orders.py).                                                    *)
(*                                                                         *)
(* Time is counted in minutes since a UTC midnight.                        *)
(***************************************************************************)
EXTENDS Integers, Sequences, FiniteSets, TLC

VARIABLES
    now,            \* datetime.now(timezone.utc), in minutes
    expiry_out,     \* SpecExpiry: the value _calculate_token_expiry returned
    auth_tokens,    \* MOFSLApiWrapper._auth_tokens : client id -> AuthToken
    auth_requests,  \* number of POSTs sent to the upstream auth endpoint
    apc,            \* per caller: position inside authenticate_client
    aargs,          \* per caller: arguments of the call in progress
    aret,           \* per caller: what the call returned or raised
    request,        \* the BatchOrderRequest handed to execute_batch_orders
    bstate,         \* where execute_batch_orders is, and how it ended
    valid_orders,   \* valid_orders: the client orders that pass the quantity filter
    sem_value,      \* semaphore._value
    sem_waiters,    \* semaphore._waiters: the tasks queued at the semaphore, in order
    tpc,            \* per task: position inside execute_with_semaphore
    results,        \* per task: what asyncio.gather collected for it
    fault,          \* per task: what went wrong while it executed ("" = nothing)
    completed,      \* the tasks that have finished, in the order they finished
    sent,           \* the place-order requests that reached the upstream
    orders_db,      \* the rows added to the orders table and committed
    batch_response, \* the BatchOrderResponse returned
    order_details,  \* SpecPlace: the order handed to place_order
    ppc,            \* SpecPlace: position inside place_order
    place_requests, \* SpecPlace: number of POSTs sent to the place-order endpoint
    place_ret,      \* SpecPlace: what place_order returned or raised
    exit_request,   \* the ExitOrderRequest handed to exit_all_positions
    estate,         \* where exit_all_positions is, and how it ended
    clients,        \* clients: the ids of the rows the query returned
    fetch_log,      \* per client of the loop: what the position fetch gave
    exit_results,   \* exit_results: the failures recorded by the loop
    clients_to_exit,\* clients_to_exit: <<client id, exit_positions>> pairs
    etasks,         \* per task: position and locals of execute_client_exit
    client_results, \* per task: what asyncio.gather collected for it
    exit_sent,      \* the exit orders that reached the upstream
    exit_rows,      \* the order rows of the session: pending and committed
    exit_response,  \* the dict exit_all_positions returned
    redis_up,       \* redis_client is not None
    redis,          \* the keys of Redis: exchange -> cached catalog and its expiry
    catalog_fetches,\* number of requests sent to the instruments endpoint
    scall,          \* per caller: position and arguments of the tokens route in progress
    sret,           \* per caller: what the route returned or raised
    filter_input,   \* SpecFilter: instruments_data, q and limit
    filter_output,  \* SpecFilter: limited_results
    store_ret,      \* SpecStore: what get_cached_token or invalidate_token returned
    auth_response,  \* the response of the auth endpoint handed to the classification
    auth_outcome,   \* what authenticate_client makes of auth_response
    op_response,    \* the response to a cancel or modify request
    op_outcome      \* what cancel_order and modify_order make of op_response

authVars == <<auth_tokens, auth_requests, apc, aargs, aret>>

batchVars == <<request, bstate, valid_orders, sem_value, sem_waiters, tpc,
               results, fault, completed, sent, orders_db, batch_response>>

placeVars == <<order_details, ppc, place_requests, place_ret>>

exitVars == <<exit_request, estate, clients, fetch_log, exit_results,
              clients_to_exit, etasks, client_results, exit_sent, exit_rows,
              exit_response>>

cacheVars == <<redis_up, redis, catalog_fetches, scall, sret>>

filterVars == <<filter_input, filter_output>>

storeVars == <<store_ret>>

classifyVars == <<auth_response, auth_outcome, op_response, op_outcome>>

moreVars == <<placeVars, exitVars, cacheVars, filterVars, storeVars, classifyVars, classifyVars>>

vars == <<now, expiry_out, authVars, batchVars, moreVars>>

\* place_order has not been called.
InitPlaceVars ==
    /\ order_details = <<>>
    /\ ppc = "idle"
    /\ place_requests = 0
    /\ place_ret = <<>>

\* exit_all_positions has not been called.
InitExitVars ==
    /\ exit_request = <<>>
    /\ estate = "idle"
    /\ clients = <<>>
    /\ fetch_log = <<>>
    /\ exit_results = <<>>
    /\ clients_to_exit = <<>>
    /\ etasks = <<>>
    /\ client_results = <<>>
    /\ exit_sent = {}
    /\ exit_rows = [pending |-> {}, committed |-> {}]
    /\ exit_response = <<>>

\* No route of the tokens router has been called.
InitCacheVars ==
    /\ redis_up = TRUE
    /\ redis = <<>>
    /\ catalog_fetches = 0
    /\ scall = <<>>
    /\ sret = <<>>

InitFilterVars ==
    /\ filter_input = <<>>
    /\ filter_output = <<>>

\* Neither get_cached_token nor invalidate_token has been called.
InitStoreVars == store_ret = <<>>

\* No response has been classified.
InitClassifyVars ==
    /\ auth_response = <<>>
    /\ auth_outcome = <<>>
    /\ op_response = <<>>
    /\ op_outcome = <<>>

InitMoreVars ==
    /\ InitPlaceVars /\ InitExitVars /\ InitCacheVars /\ InitFilterVars
    /\ InitStoreVars /\ InitClassifyVars

-----------------------------------------------------------------------------
(* Bounds of the model *)

MaxClock == 4320        \* SpecExpiry: current times 0..MaxClock (three days)
MaxNow == 1500          \* SpecAuth: the clock stops advancing here
MaxAuthRequests == 2    \* SpecAuth: authentication requests sent at most

\* The concurrent callers of authenticate_client
Callers == {1, 2}

-----------------------------------------------------------------------------
(* Time and the daily cutoff *)

MinutesPerHour == 60
MinutesPerDay == 1440
ist_offset == 330       \* timedelta(hours=5, minutes=30)
CutoffHour == 6

\* datetime.hour of a time given in minutes
HourOf(t) == (t % MinutesPerDay) \div MinutesPerHour

\* datetime.replace(hour=6, minute=0, second=0, microsecond=0)
ReplaceAtCutoff(t) == (t \div MinutesPerDay) * MinutesPerDay + CutoffHour * MinutesPerHour

calculate_token_expiry_late(t) ==
    LET ist_now == t + ist_offset
        expiry_ist == IF HourOf(ist_now) <= CutoffHour
                      THEN ReplaceAtCutoff(ist_now)
                      ELSE ReplaceAtCutoff(ist_now + MinutesPerDay)
    IN  expiry_ist - ist_offset

\* MOFSLApiWrapper._calculate_token_expiry, with `now` passed in
calculate_token_expiry(t) ==
    LET ist_now == t + ist_offset
        expiry_ist == IF HourOf(ist_now) < CutoffHour
                      THEN ReplaceAtCutoff(ist_now)
                      ELSE ReplaceAtCutoff(ist_now + MinutesPerDay)
    IN  expiry_ist - ist_offset

-----------------------------------------------------------------------------
(* Clients and their stored credentials *)

Segments == {"interactive", "commodity"}

\* An encrypted column is empty (NULL or ""), or a ciphertext that decrypts to
\* a proper value, to whitespace only, or not at all.
EncNone == ""
EncGood == "enc(value)"
EncBlank == "enc( )"
EncCorrupt == "garbage"

FullCreds == [api_key |-> EncGood, secret_key |-> EncGood,
              user_id |-> EncGood, password |-> EncGood]

\* The client rows of the database (models.Client).
ClientIds == {1, 2, 3}

ClientRow(id) ==
    CASE id = 1 -> [id |-> 1, client_code |-> "C001", is_active |-> TRUE,
                    interactive |-> FullCreds, commodity |-> FullCreds]
      [] id = 2 -> [id |-> 2, client_code |-> "C002", is_active |-> FALSE,
                    interactive |-> FullCreds,
                    commodity |-> [FullCreds EXCEPT !.password = EncBlank]]
      [] id = 3 -> [id |-> 3, client_code |-> "C003", is_active |-> TRUE,
                    interactive |-> [FullCreds EXCEPT !.api_key = EncNone],
                    commodity |-> FullCreds]

SegmentCreds(client, segment) ==
    IF segment = "interactive" THEN client.interactive ELSE client.commodity

\* security.decrypt_data: empty input gives empty output; a ciphertext that
\* cannot be decrypted raises (modelled by the value "<raise>").
decrypt_data(encrypted_data) ==
    CASE encrypted_data = EncNone -> ""
      [] encrypted_data = EncGood -> "value"
      [] encrypted_data = EncBlank -> " "
      [] OTHER -> "<raise>"

\* field and field.strip()
NonBlank(s) == s # "" /\ s # " "

\* MOFSLCredentials.validate
validate(credentials) ==
    /\ NonBlank(credentials.api_key)
    /\ NonBlank(credentials.secret_key)
    /\ NonBlank(credentials.user_id)
    /\ NonBlank(credentials.password)

\* Credentials that always pass
credentials_always_ok(client, segment) == TRUE

\* MOFSLApiWrapper._decrypt_client_credentials: TRUE when it returns
\* credentials, FALSE when it raises ValueError.
decrypt_client_credentials_ok(client, segment) ==
    LET enc == SegmentCreds(client, segment)
        all_present == /\ enc.api_key # EncNone /\ enc.secret_key # EncNone
                       /\ enc.user_id # EncNone /\ enc.password # EncNone
        credentials == [api_key |-> decrypt_data(enc.api_key),
                        secret_key |-> decrypt_data(enc.secret_key),
                        user_id |-> decrypt_data(enc.user_id),
                        password |-> decrypt_data(enc.password)]
        raised == \E f \in {"api_key", "secret_key", "user_id", "password"} :
                      credentials[f] = "<raise>"
    IN  all_present /\ ~raised /\ validate(credentials)

-----------------------------------------------------------------------------
(* The batch request and its results (app/api/orders.py) *)

\* Optional[Decimal]: None is the empty tuple, a price p is <<p>>.
None == <<>>
Some(x) == <<x>>

\* ClientOrder
ClientOrder(client_id, quantity, price) ==
    [client_id |-> client_id, quantity |-> quantity, price |-> price]

\* The client orders the body of a request may carry: clients 1-3 are rows of
\* the clients table, client 4 is not; one order has quantity 0.
ClientOrders ==
    {ClientOrder(1, q, pr) : q \in {1, 2}, pr \in {None, Some(10)}}
    \cup {ClientOrder(2, 1, Some(10)), ClientOrder(2, 2, None),
          ClientOrder(3, 1, None), ClientOrder(4, 2, Some(10)),
          ClientOrder(1, 0, Some(10))}

\* BatchOrderRequest (the fields the execution reads)
BatchOrderRequest(order_type, default_price, trigger_price, segment, dry_run, max_concurrent, client_orders) ==
    [order_type |-> order_type, default_price |-> default_price,
     trigger_price |-> trigger_price, segment |-> segment, dry_run |-> dry_run,
     max_concurrent |-> max_concurrent, client_orders |-> client_orders]

NoRequest == BatchOrderRequest("", None, None, "", FALSE, 0, <<>>)

\* OrderExecutionResult (execution_time_ms left out)
OrderExecutionResult(client_id, client_code, quantity, price, success, order_id, error_message) ==
    [client_id |-> client_id, client_code |-> client_code,
     quantity |-> quantity, price |-> price, success |-> success,
     order_id |-> order_id, error_message |-> error_message]

NoResult == OrderExecutionResult(0, "", 0, None, FALSE, "", "")

\* BatchOrderResponse
NoResponse == [success |-> FALSE, total_orders |-> 0, successful_orders |-> 0,
               failed_orders |-> 0, total_quantity |-> 0, results |-> <<>>]

InitBatchVars ==
    /\ request = NoRequest
    /\ bstate = "idle"
    /\ valid_orders = <<>>
    /\ sem_value = 0
    /\ sem_waiters = <<>>
    /\ tpc = <<>>
    /\ results = <<>>
    /\ fault = <<>>
    /\ completed = <<>>
    /\ sent = {}
    /\ orders_db = {}
    /\ batch_response = NoResponse

-----------------------------------------------------------------------------
(* SessionManager: MOFSLApiWrapper.authenticate_client and the token cache *)

\* The token string the upstream answers the n-th auth request with: it stands
\* for the credentials (client, segment) the request carried.
TokenValue(n, cid, segment) ==
    [serial |-> n, client_id |-> cid, segment |-> segment]

NoTokenValue == TokenValue(0, 0, "")

\* dataclass AuthToken (created_at, which nothing reads, is left out)
AuthToken(token, client_id, expires_at) ==
    [token |-> token, client_id |-> client_id, expires_at |-> expires_at]

NoAuthToken == AuthToken(NoTokenValue, 0, 0)

\* A token that never expires
is_never_expired(tok, t) == FALSE

\* AuthToken.is_expired at time t
is_expired(tok, t) == t >= tok.expires_at

\* The responses of the upstream auth endpoint: no response at all (code 0,
\* httpx raises), a non-200 status, or 200 with a body whose "status" is given
\* and whose non-empty token fields are `fields`.
token_fields == <<"AuthToken", "authToken", "token", "access_token">>

AuthResponse(code, status, fields) ==
    [code |-> code, status |-> status, fields |-> fields]

AuthResponses ==
    {AuthResponse(0, "", {}), AuthResponse(401, "error", {}),
     AuthResponse(201, "success", {"AuthToken"})}
    \cup {AuthResponse(200, st, fs) :
            st \in {"success", "error"},
            fs \in {{}, {"token"}, {"authToken", "access_token"},
                    {"AuthToken", "token"}}}

\* MOFSLApiWrapper._handle_auth_response: TRUE when it returns, FALSE when it
\* raises ValueError.
handle_auth_response_ok(response) ==
    /\ response.code = 200
    /\ (response.status = "success" \/ "AuthToken" \in response.fields)

\* An extraction that takes the last field of token_fields that is present
extract_last_token_field(response) ==
    IF \E k \in 1..Len(token_fields) : token_fields[k] \in response.fields
    THEN token_fields[CHOOSE k \in 1..Len(token_fields) :
                        /\ token_fields[k] \in response.fields
                        /\ \A j \in (k + 1)..Len(token_fields) :
                               token_fields[j] \notin response.fields]
    ELSE ""

\* MOFSLApiWrapper._extract_auth_token: the first field of token_fields that is
\* present and non-empty, "" when there is none (it raises).
extract_auth_token_field(response) ==
    IF \E k \in 1..Len(token_fields) : token_fields[k] \in response.fields
    THEN token_fields[CHOOSE k \in 1..Len(token_fields) :
                        /\ token_fields[k] \in response.fields
                        /\ \A j \in 1..(k - 1) : token_fields[j] \notin response.fields]
    ELSE ""

CacheNeverHit(cid, force_refresh) == FALSE

\* authenticate_client, the test of lines 278-280: a token is cached for the
\* client and it has not expired, and no refresh is forced.
CacheHit(cid, force_refresh) ==
    /\ ~force_refresh
    /\ cid \in DOMAIN auth_tokens
    /\ ~is_expired(auth_tokens[cid], now)

StoreNothing(store, cid, tok) == store

\* self._auth_tokens[client.id] = auth_token
StoreToken(store, cid, tok) ==
    [x \in DOMAIN store \cup {cid} |-> IF x = cid THEN tok ELSE store[x]]

\* A deletion that deletes nothing
DeleteNothing(store, cid) == store

\* del self._auth_tokens[client_id]
DeleteToken(store, cid) == [x \in DOMAIN store \ {cid} |-> store[x]]

\* The arguments of a call, and the number of the auth request it has sent
\* (0 when it has sent none).
AuthArgs(cid, segment, force_refresh, serial) ==
    [client_id |-> cid, segment |-> segment, force_refresh |-> force_refresh,
     serial |-> serial]

NoAuthArgs == AuthArgs(0, "", FALSE, 0)

Returned(tok) == [kind |-> "token", token |-> tok, error |-> ""]
Raised(msg) == [kind |-> "error", token |-> NoAuthToken, error |-> msg]
NoReturn == [kind |-> "none", token |-> NoAuthToken, error |-> ""]

\* authenticate_client up to its first suspension: the cached token is
\* returned, or the credentials are decrypted and the auth request is sent.
AuthCall(p, client, segment, force_refresh) ==
    /\ apc[p] = "idle"
    /\ IF CacheHit(client.id, force_refresh)
       THEN /\ apc' = [apc EXCEPT ![p] = "done"]
            /\ aargs' = [aargs EXCEPT ![p] =
                            AuthArgs(client.id, segment, force_refresh, 0)]
            /\ aret' = [aret EXCEPT ![p] = Returned(auth_tokens[client.id])]
            /\ UNCHANGED auth_requests
       ELSE IF ~decrypt_client_credentials_ok(client, segment)
       THEN /\ apc' = [apc EXCEPT ![p] = "done"]
            /\ aargs' = [aargs EXCEPT ![p] =
                            AuthArgs(client.id, segment, force_refresh, 0)]
            /\ aret' = [aret EXCEPT ![p] =
                           Raised("Authentication failed: Failed to decrypt credentials")]
            /\ UNCHANGED auth_requests
       ELSE /\ auth_requests < MaxAuthRequests
            /\ apc' = [apc EXCEPT ![p] = "awaiting"]
            /\ aargs' = [aargs EXCEPT ![p] =
                            AuthArgs(client.id, segment, force_refresh,
                                     auth_requests + 1)]
            /\ aret' = [aret EXCEPT ![p] = NoReturn]
            /\ auth_requests' = auth_requests + 1
    /\ UNCHANGED <<moreVars, now, expiry_out, auth_tokens, batchVars>>

\* A store that is written whether or not the response was accepted
StoreRegardless(store, cid, tok, raised) == StoreToken(store, cid, tok)

\* authenticate_client, lines 301-319: the store is written only when neither
\* the request, nor _handle_auth_response, nor _extract_auth_token raised.
StoreIfAuthenticated(store, cid, tok, raised) ==
    IF raised THEN store ELSE StoreToken(store, cid, tok)

\* authenticate_client from the response of the auth request to its return.
AuthRespond(p, response) ==
    /\ apc[p] = "awaiting"
    /\ apc' = [apc EXCEPT ![p] = "done"]
    /\ LET a == aargs[p]
           auth_token == AuthToken(
               TokenValue(a.serial, a.client_id, a.segment),
               a.client_id, calculate_token_expiry(now))
           error == IF response.code = 0 THEN "httpx.HTTPError"
                    ELSE IF ~handle_auth_response_ok(response)
                    THEN "Authentication failed"
                    ELSE IF extract_auth_token_field(response) = ""
                    THEN "Authentication failed: Auth token not found in response"
                    ELSE ""
       IN  /\ auth_tokens' = StoreIfAuthenticated(auth_tokens, a.client_id,
                                                  auth_token, error # "")
           /\ aret' = [aret EXCEPT ![p] =
                          IF error # "" THEN Raised(error) ELSE Returned(auth_token)]
    /\ UNCHANGED <<moreVars, now, expiry_out, auth_requests, aargs, batchVars>>

\* The caller takes the result; the caller is free for its next call.
AuthReturn(p) ==
    /\ apc[p] = "done"
    /\ apc' = [apc EXCEPT ![p] = "idle"]
    /\ aargs' = [aargs EXCEPT ![p] = NoAuthArgs]
    /\ aret' = [aret EXCEPT ![p] = NoReturn]
    /\ UNCHANGED <<moreVars, now, expiry_out, auth_tokens, auth_requests, batchVars>>

\* Time passes.
StartTimes == {0, 30}       \* 05:30 and 06:00 IST
HalfDay == 12 * MinutesPerHour

Tick ==
    /\ now + HalfDay <= MaxNow
    /\ now' = now + HalfDay
    /\ UNCHANGED <<moreVars, expiry_out, authVars, batchVars>>

InitAuthVars ==
    /\ auth_tokens = <<>>
    /\ auth_requests = 0
    /\ apc = [p \in Callers |-> "idle"]
    /\ aargs = [p \in Callers |-> NoAuthArgs]
    /\ aret = [p \in Callers |-> NoReturn]

InitAuth ==
    /\ now \in StartTimes
    /\ expiry_out = -1
    /\ InitAuthVars
    /\ InitBatchVars
    /\ InitMoreVars

NextAuth ==
    \/ \E p \in Callers, c \in ClientIds, s \in Segments, f \in BOOLEAN :
           AuthCall(p, ClientRow(c), s, f)
    \/ \E p \in Callers, r \in AuthResponses : AuthRespond(p, r)
    \/ \E p \in Callers : AuthReturn(p)
    \/ Tick

SpecAuth == InitAuth /\ [][NextAuth]_vars

-----------------------------------------------------------------------------
(* The synchronous methods of the token store, get_cached_token and         *)
(* invalidate_token, called between the steps of one caller of              *)
(* authenticate_client.                                                     *)

\* What a method of the store returned to its caller
StoreReturn(op, client_id, value) ==
    [op |-> op, client_id |-> client_id, value |-> value]

\* MOFSLApiWrapper.get_cached_token
get_cached_token(client_id) ==
    /\ store_ret = <<>>
    /\ IF client_id \in DOMAIN auth_tokens
       THEN LET token == auth_tokens[client_id]
            IN  IF ~is_expired(token, now)
                THEN /\ store_ret' = StoreReturn("get_cached_token", client_id, Some(token))
                     /\ UNCHANGED auth_tokens
                ELSE /\ auth_tokens' = DeleteToken(auth_tokens, client_id)
                     /\ store_ret' = StoreReturn("get_cached_token", client_id, None)
       ELSE /\ store_ret' = StoreReturn("get_cached_token", client_id, None)
            /\ UNCHANGED auth_tokens
    /\ UNCHANGED <<now, expiry_out, auth_requests, apc, aargs, aret, batchVars,
                   placeVars, exitVars, cacheVars, filterVars, classifyVars>>

\* MOFSLApiWrapper.invalidate_token
invalidate_token(client_id) ==
    /\ store_ret = <<>>
    /\ IF client_id \in DOMAIN auth_tokens
       THEN /\ auth_tokens' = DeleteToken(auth_tokens, client_id)
            /\ store_ret' = StoreReturn("invalidate_token", client_id, TRUE)
       ELSE /\ store_ret' = StoreReturn("invalidate_token", client_id, FALSE)
            /\ UNCHANGED auth_tokens
    /\ UNCHANGED <<now, expiry_out, auth_requests, apc, aargs, aret, batchVars,
                   placeVars, exitVars, cacheVars, filterVars, classifyVars>>

\* The caller takes what the method returned.
StoreReturnTaken ==
    /\ store_ret # <<>>
    /\ store_ret' = <<>>
    /\ UNCHANGED <<now, expiry_out, authVars, batchVars, placeVars, exitVars,
                   cacheVars, filterVars, classifyVars>>

InitStore == InitAuth

NextStore ==
    \/ \E c \in ClientIds, s \in Segments, f \in BOOLEAN :
           AuthCall(1, ClientRow(c), s, f)
    \/ \E r \in AuthResponses : AuthRespond(1, r)
    \/ AuthReturn(1)
    \/ Tick
    \/ \E c \in ClientIds : get_cached_token(c)
    \/ \E c \in ClientIds : invalidate_token(c)
    \/ StoreReturnTaken

SpecStore == InitStore /\ [][NextStore]_vars

-----------------------------------------------------------------------------
(* authenticate_client from the response of the auth endpoint to the token  *)
(* (lines 301-311), as a function of the response.                          *)

\* The responses classified: a status code, the "status" of the body ("" when
\* it has none) and the token fields that are present and non-empty.
AuthResponseInputs ==
    {AuthResponse(c, st, fs) :
        c \in {200, 201, 204, 401, 500},
        st \in {"success", "error", ""},
        fs \in SUBSET {token_fields[k] : k \in 1..Len(token_fields)}}

\* What authenticate_client makes of a response: the token field it takes the
\* session token from, or the error it raises.
AuthOutcome(ok, field, error) == [ok |-> ok, field |-> field, error |-> error]

\* _handle_auth_response, then _extract_auth_token
classify_auth_response(response) ==
    IF ~handle_auth_response_ok(response)
    THEN AuthOutcome(FALSE, "", "Authentication failed")
    ELSE IF extract_auth_token_field(response) = ""
    THEN AuthOutcome(FALSE, "", "Authentication failed: Auth token not found in response")
    ELSE AuthOutcome(TRUE, extract_auth_token_field(response), "")

ClassifyAuthResponse ==
    /\ auth_outcome = <<>>
    /\ auth_outcome' = classify_auth_response(auth_response)
    /\ UNCHANGED <<now, expiry_out, authVars, batchVars, placeVars, exitVars,
                   cacheVars, filterVars, storeVars, auth_response, op_response,
                   op_outcome>>

InitAuthResponse ==
    /\ now = 0
    /\ expiry_out = -1
    /\ InitAuthVars
    /\ InitBatchVars
    /\ InitPlaceVars
    /\ InitExitVars
    /\ InitCacheVars
    /\ InitFilterVars
    /\ InitStoreVars
    /\ auth_response \in AuthResponseInputs
    /\ auth_outcome = <<>>
    /\ op_response = <<>>
    /\ op_outcome = <<>>

NextAuthResponse == ClassifyAuthResponse

SpecAuthResponse == InitAuthResponse /\ [][NextAuthResponse]_vars

-----------------------------------------------------------------------------
(* The expiry rule on its own, for every current time *)

InitExpiry ==
    /\ now \in 0..MaxClock
    /\ expiry_out = -1
    /\ InitAuthVars
    /\ InitBatchVars
    /\ InitMoreVars

CalculateExpiry ==
    /\ expiry_out = -1
    /\ expiry_out' = calculate_token_expiry(now)
    /\ UNCHANGED <<moreVars, now, authVars, batchVars>>

NextExpiry == CalculateExpiry

SpecExpiry == InitExpiry /\ [][NextExpiry]_vars

-----------------------------------------------------------------------------
(* BatchExecutionEngine: execute_batch_orders and execute_single_order *)

\* The clients table: db.query(ClientModel).filter(id == client_id).first()
ClientExists(client_id) == client_id \in ClientIds

\* f"CLIENT_{client_id}"
FallbackCode(client_id) ==
    <<"CLIENT_1", "CLIENT_2", "CLIENT_3", "CLIENT_4">>[client_id]

\* A lookup that does not test is_active
get_client_without_active_check(client_id, segment) ==
    IF ~ClientExists(client_id) THEN "Client not found"
    ELSE IF \E f \in {"api_key", "secret_key", "user_id", "password"} :
                SegmentCreds(ClientRow(client_id), segment)[f] = EncNone
    THEN "Client does not have credentials"
    ELSE ""

\* get_client_with_validation: the message of the ValueError it raises, ""
\* when it returns the client.
get_client_with_validation(client_id, segment) ==
    IF ~ClientExists(client_id) THEN "Client not found"
    ELSE LET client == ClientRow(client_id)
             enc == SegmentCreds(client, segment)
         IN  IF ~client.is_active THEN "Client is inactive"
             ELSE IF \E f \in {"api_key", "secret_key", "user_id", "password"} :
                         enc[f] = EncNone
             THEN "Client does not have credentials"
             ELSE ""

\* client_order.price or batch_request.default_price
OrderPrice(req, client_order) ==
    IF client_order.price # None THEN client_order.price ELSE req.default_price

\* create_order_from_request: the validators of schemas.OrderCreate run on the
\* price and trigger price it is given; the message raised, "" when the
\* OrderCreate is built.
create_order_from_request(req, client_order) ==
    IF req.order_type \in {"LMT", "SL"} /\ OrderPrice(req, client_order) = None
    THEN "Price is required for limit and stop-loss orders"
    ELSE IF req.order_type \in {"SLM", "SL"} /\ req.trigger_price = None
    THEN "Trigger price is required for stop-loss orders"
    ELSE ""

\* A validation that accepts every order
validate_nothing(order_type, quantity, price, trigger_price) == ""

\* MOFSLApiWrapper._validate_order_details on the OrderCreate of a batch order
\* (disclosed_quantity keeps its default 0): the message raised, "" when valid.
validate_order_details(order_type, quantity, price, trigger_price) ==
    IF quantity <= 0 THEN "Order quantity must be greater than 0"
    ELSE IF order_type \in {"LMT", "SL"} /\ (price = None \/ price[1] <= 0)
    THEN "Price is required and must be greater than 0 for limit orders"
    ELSE IF order_type \in {"SLM", "SL"}
            /\ (trigger_price = None \/ trigger_price[1] <= 0)
    THEN "Trigger price is required and must be greater than 0 for stop-loss orders"
    ELSE ""

\* The answers of the upstream place-order endpoint: no answer (code 0, httpx
\* raises), a non-200 status, or 200 with a body: its "status", whether it
\* has a "data" section, and the order id found in "data" and at top level
\* ("" = none).
PlaceResponse(code, status, has_data, data_id, root_id) ==
    [code |-> code, status |-> status, has_data |-> has_data,
     data_id |-> data_id, root_id |-> root_id]

PlaceResponses ==
    {PlaceResponse(0, "", FALSE, "", ""),
     PlaceResponse(500, "error", FALSE, "", ""),
     PlaceResponse(200, "success", TRUE, "ORD-D", "ORD-R"),
     PlaceResponse(200, "error", FALSE, "", "ORD-R"),
     PlaceResponse(200, "success", FALSE, "", "")}

\* MOFSLApiWrapper._make_authenticated_request: the message raised, "" when
\* the response data is returned.
make_authenticated_request(resp) ==
    IF resp.code = 0 THEN "httpx.HTTPError"
    ELSE IF resp.code # 200 THEN "Request failed: HTTP error"
    ELSE IF resp.status = "success" \/ resp.has_data THEN ""
    ELSE "Request failed: API error"

\* MOFSLApiWrapper._extract_order_id: the id in the data section first, then
\* the one at top level, "" when there is none (it raises).
extract_order_id(resp) ==
    IF resp.has_data /\ resp.data_id # "" THEN resp.data_id ELSE resp.root_id

\* An except clause that reports success
FailedAsSuccess(req, client_order, error_message) ==
    OrderExecutionResult(client_order.client_id,
                         FallbackCode(client_order.client_id),
                         client_order.quantity, OrderPrice(req, client_order),
                         TRUE, "", "")

\* execute_single_order, the except clause (lines 251-265)
FailedResult(req, client_order, error_message) ==
    OrderExecutionResult(client_order.client_id,
                         FallbackCode(client_order.client_id),
                         client_order.quantity, OrderPrice(req, client_order),
                         FALSE, "", error_message)

\* execute_single_order, the two successful returns (lines 202-210, 241-249)
SuccessResult(req, client_order, order_id) ==
    OrderExecutionResult(client_order.client_id,
                         ClientRow(client_order.client_id).client_code,
                         client_order.quantity, OrderPrice(req, client_order),
                         TRUE, order_id, "")

\* An execution that does not test dry_run
SingleOrderIgnoringDryRun(req, client_order) ==
    LET e1 == get_client_with_validation(client_order.client_id, req.segment)
        e2 == create_order_from_request(req, client_order)
        e3 == validate_order_details(req.order_type, client_order.quantity,
                                     OrderPrice(req, client_order),
                                     req.trigger_price)
    IN  IF e1 # "" THEN [step |-> "failed", error |-> e1]
        ELSE IF e2 # "" THEN [step |-> "failed", error |-> e2]
        ELSE IF e3 # "" THEN [step |-> "failed", error |-> e3]
        ELSE [step |-> "placing", error |-> ""]

\* execute_single_order up to its first suspension: "failed" with the error,
\* "dry_run", or "placing" when the place-order request goes out.
SingleOrderStart(req, client_order) ==
    LET e1 == get_client_with_validation(client_order.client_id, req.segment)
        e2 == create_order_from_request(req, client_order)
        e3 == validate_order_details(req.order_type, client_order.quantity,
                                     OrderPrice(req, client_order),
                                     req.trigger_price)
    IN  IF e1 # "" THEN [step |-> "failed", error |-> e1]
        ELSE IF e2 # "" THEN [step |-> "failed", error |-> e2]
        ELSE IF req.dry_run THEN [step |-> "dry_run", error |-> ""]
        ELSE IF e3 # "" THEN [step |-> "failed", error |-> e3]
        ELSE [step |-> "placing", error |-> ""]

\* The place-order request execute_single_order sends: the auth_token argument
\* of place_order is the empty string, written here as NoTokenValue.
PlaceRequest(i, client_order) ==
    [task |-> i, client_id |-> client_order.client_id,
     client_code |-> ClientRow(client_order.client_id).client_code,
     auth_token |-> NoTokenValue]

\* The first precondition of execute_batch_orders (lines 329-333)
PriceMissing(req) ==
    /\ req.order_type \in {"LMT", "SL"}
    /\ req.default_price = None
    /\ ~\E k \in 1..Len(req.client_orders) : req.client_orders[k].price # None

\* The second precondition (lines 335-339)
TriggerMissing(req) ==
    req.order_type \in {"SLM", "SL"} /\ req.trigger_price = None

RECURSIVE FilterOrders(_)
\* [co for co in request.client_orders if co.quantity > 0]
FilterOrders(orders) ==
    IF orders = <<>> THEN <<>>
    ELSE IF Head(orders).quantity > 0
         THEN <<Head(orders)>> \o FilterOrders(Tail(orders))
         ELSE FilterOrders(Tail(orders))

Tasks == 1..Len(valid_orders)

\* The constraints of the request body the route declares: client_orders has
\* min_items=1, and every ClientOrder has quantity gt=0. A body that breaks
\* them is answered 422 and execute_batch_orders does not run.
RequestSchemaValid(req) ==
    /\ Len(req.client_orders) >= 1
    /\ \A k \in 1..Len(req.client_orders) : req.client_orders[k].quantity > 0

\* A route that refuses no request
BatchNeverRejected(req) == FALSE

\* The request is refused: by the schema of the body, or by one of the three
\* HTTPException(400) of execute_batch_orders (lines 329-348).
BatchRejected(req) ==
    \/ ~RequestSchemaValid(req)
    \/ PriceMissing(req)
    \/ TriggerMissing(req)
    \/ FilterOrders(req.client_orders) = <<>>

\* The route POST /execute-all from the arrival of the body to the await of
\* asyncio.gather in execute_batch_orders.
ExecuteBatch ==
    /\ bstate = "received"
    /\ IF BatchRejected(request)
       THEN /\ bstate' = "rejected"
            /\ UNCHANGED <<valid_orders, sem_value, sem_waiters, tpc, results, fault>>
       ELSE LET vo == FilterOrders(request.client_orders)
            IN  /\ bstate' = "running"
                /\ valid_orders' = vo
                /\ sem_value' = request.max_concurrent
                /\ sem_waiters' = <<>>
                /\ tpc' = [i \in 1..Len(vo) |-> "created"]
                /\ results' = [i \in 1..Len(vo) |-> NoResult]
                /\ fault' = [i \in 1..Len(vo) |-> ""]
    /\ UNCHANGED <<moreVars, now, expiry_out, authVars, request, completed, sent, orders_db,
                   batch_response>>

SemNeverLocked == FALSE

\* `async with semaphore`, Semaphore.locked(): no slot is free, or tasks are
\* queued already.
SemLocked == sem_value = 0 \/ sem_waiters # <<>>

\* A release that hands the slot to the task queued last
ReleaseLast(value, waiters, pcs) ==
    IF \E k \in 1..Len(waiters) : pcs[waiters[k]] = "waiting"
    THEN LET k == CHOOSE k \in 1..Len(waiters) :
                      /\ pcs[waiters[k]] = "waiting"
                      /\ \A j \in (k + 1)..Len(waiters) : pcs[waiters[j]] # "waiting"
         IN  [value |-> value, pcs |-> [pcs EXCEPT ![waiters[k]] = "granted"]]
    ELSE [value |-> value + 1, pcs |-> pcs]

\* A release that keeps the slot
ReleaseNothing(value, waiters, pcs) == [value |-> value, pcs |-> pcs]

\* Semaphore.release() and _wake_up_next(): the slot goes back, and the first
\* task still waiting in the queue is handed it.
Release(value, waiters, pcs) ==
    IF \E k \in 1..Len(waiters) : pcs[waiters[k]] = "waiting"
    THEN LET k == CHOOSE k \in 1..Len(waiters) :
                      /\ pcs[waiters[k]] = "waiting"
                      /\ \A j \in 1..(k - 1) : pcs[waiters[j]] # "waiting"
         IN  [value |-> value, pcs |-> [pcs EXCEPT ![waiters[k]] = "granted"]]
    ELSE [value |-> value + 1, pcs |-> pcs]

RECURSIVE WakeWhileFree(_, _, _)
\* Semaphore.acquire() after its wait: while self._value > 0, _wake_up_next()
WakeWhileFree(value, waiters, pcs) ==
    IF value > 0 /\ \E k \in 1..Len(waiters) : pcs[waiters[k]] = "waiting"
    THEN LET k == CHOOSE k \in 1..Len(waiters) :
                      /\ pcs[waiters[k]] = "waiting"
                      /\ \A j \in 1..(k - 1) : pcs[waiters[j]] # "waiting"
         IN  WakeWhileFree(value - 1, waiters, [pcs EXCEPT ![waiters[k]] = "granted"])
    ELSE [value |-> value, pcs |-> pcs]

\* execute_single_order run by task i, which holds a slot, up to its first
\* suspension or its return.
RunSingleOrder(i, value, waiters, pcs) ==
    LET co == valid_orders[i]
        st == SingleOrderStart(request, co)
        rel == Release(value, waiters, [pcs EXCEPT ![i] = "done"])
    IN  CASE st.step = "placing" ->
               /\ tpc' = [pcs EXCEPT ![i] = "upstream"]
               /\ sem_value' = value
               /\ sent' = sent \cup {PlaceRequest(i, co)}
               /\ UNCHANGED <<results, fault, completed>>
          [] st.step = "dry_run" ->
               /\ tpc' = rel.pcs
               /\ sem_value' = rel.value
               /\ results' = [results EXCEPT ![i] = SuccessResult(request, co, "DRY_RUN")]
               /\ completed' = Append(completed, i)
               /\ UNCHANGED <<sent, fault>>
          [] st.step = "failed" ->
               /\ tpc' = rel.pcs
               /\ sem_value' = rel.value
               /\ results' = [results EXCEPT ![i] = FailedResult(request, co, st.error)]
               /\ fault' = [fault EXCEPT ![i] = st.error]
               /\ completed' = Append(completed, i)
               /\ UNCHANGED sent

\* Task i runs for the first time: `async with semaphore` takes a slot and
\* execute_single_order runs, or the task queues at the semaphore. asyncio
\* starts the tasks gather was given in the order of valid_orders.
StartTask(i) ==
    /\ bstate = "running"
    /\ i \in Tasks
    /\ tpc[i] = "created"
    /\ \A j \in 1..(i - 1) : tpc[j] # "created"
    /\ IF SemLocked
       THEN /\ tpc' = [tpc EXCEPT ![i] = "waiting"]
            /\ sem_waiters' = Append(sem_waiters, i)
            /\ UNCHANGED <<sem_value, results, fault, completed, sent>>
       ELSE /\ RunSingleOrder(i, sem_value - 1, sem_waiters, tpc)
            /\ UNCHANGED sem_waiters
    /\ UNCHANGED <<moreVars, now, expiry_out, authVars, request, bstate, valid_orders,
                   orders_db, batch_response>>

\* A queued task that was handed a slot resumes and runs execute_single_order.
ResumeTask(i) ==
    /\ bstate = "running"
    /\ i \in Tasks
    /\ tpc[i] = "granted"
    /\ LET waiters == SelectSeq(sem_waiters, LAMBDA j : j # i)
           woken == WakeWhileFree(sem_value, waiters, [tpc EXCEPT ![i] = "running"])
       IN  /\ sem_waiters' = waiters
           /\ RunSingleOrder(i, woken.value, waiters, woken.pcs)
    /\ UNCHANGED <<moreVars, now, expiry_out, authVars, request, bstate, valid_orders,
                   orders_db, batch_response>>

\* The OrderModel row execute_single_order adds
OrderRow(req, client_order, order_id) ==
    [order_id |-> order_id, client_id |-> client_order.client_id,
     quantity |-> client_order.quantity, price |-> OrderPrice(req, client_order)]

\* The upstream answers task i's place-order request (or the transport
\* fails); execute_single_order extracts the order id, saves the order row
\* (the commit succeeds or raises) and returns, and the slot is released.
PlaceRespond(i, resp, commit_ok) ==
    /\ bstate = "running"
    /\ i \in Tasks
    /\ tpc[i] = "upstream"
    /\ LET co == valid_orders[i]
           e1 == make_authenticated_request(resp)
           order_id == extract_order_id(resp)
           error == IF e1 # "" THEN e1
                    ELSE IF order_id = "" THEN "Order ID not found in response"
                    ELSE IF ~commit_ok THEN "db.commit() failed"
                    ELSE ""
           rel == Release(sem_value, sem_waiters, [tpc EXCEPT ![i] = "done"])
       IN  /\ tpc' = rel.pcs
           /\ sem_value' = rel.value
           /\ fault' = [fault EXCEPT ![i] = error]
           /\ completed' = Append(completed, i)
           /\ results' = [results EXCEPT ![i] =
                             IF error = "" THEN SuccessResult(request, co, order_id)
                             ELSE FailedResult(request, co, error)]
           /\ orders_db' = IF error = ""
                           THEN orders_db \cup {OrderRow(request, co, order_id)}
                           ELSE orders_db
    /\ UNCHANGED <<moreVars, now, expiry_out, authVars, request, bstate, valid_orders,
                   sem_waiters, sent, batch_response>>

RECURSIVE SumQuantity(_)
\* sum(r.quantity for r in successful_orders)
SumQuantity(rs) ==
    IF rs = <<>> THEN 0 ELSE Head(rs).quantity + SumQuantity(Tail(rs))

\* execute_batch_orders after asyncio.gather: the results in the order of
\* the tasks, and the summary (lines 369-422).
Summarize(execution_results) ==
    LET successful_orders == SelectSeq(execution_results, LAMBDA r : r.success)
        failed_orders == SelectSeq(execution_results, LAMBDA r : ~r.success)
    IN  [success |-> Len(successful_orders) > 0,
         total_orders |-> Len(valid_orders),
         successful_orders |-> Len(successful_orders),
         failed_orders |-> Len(failed_orders),
         total_quantity |-> SumQuantity(successful_orders),
         results |-> execution_results]

ResultsAsCompleted(res, order) == [k \in 1..Len(order) |-> res[order[k]]]

\* results = await asyncio.gather(*tasks, return_exceptions=True): the result
\* of each task at the position of the task, whatever order they finished in.
GatherResults(res, order) == [i \in 1..Len(res) |-> res[i]]

BatchReturn ==
    /\ bstate = "running"
    /\ \A i \in Tasks : tpc[i] = "done"
    /\ bstate' = "returned"
    /\ batch_response' = Summarize(GatherResults(results, completed))
    /\ UNCHANGED <<moreVars, now, expiry_out, authVars, request, valid_orders, sem_value,
                   sem_waiters, tpc, results, fault, completed, sent, orders_db>>

MaxOrders == 2

RECURSIVE SeqsUpTo(_, _)
\* The sequences over S of length 1..n
SeqsUpTo(S, n) ==
    IF n = 0 THEN {}
    ELSE LET shorter == SeqsUpTo(S, n - 1)
         IN  {<<x>> : x \in S} \cup shorter
             \cup {Append(sq, x) : sq \in shorter, x \in S}

Requests ==
    {BatchOrderRequest(ot, dp, tp, sg, dr, mc, cos) :
        ot \in {"MKT", "LMT", "SLM", "SL"},
        dp \in {None, Some(10)},
        tp \in {None, Some(5)},
        sg \in {"interactive"},
        dr \in BOOLEAN,
        mc \in {1, 2},
        cos \in SeqsUpTo(ClientOrders, MaxOrders) \cup {<<>>}}

InitBatch ==
    /\ now = 0
    /\ expiry_out = -1
    /\ InitAuthVars
    /\ request \in Requests
    /\ bstate = "received"
    /\ valid_orders = <<>>
    /\ sem_value = 0
    /\ sem_waiters = <<>>
    /\ tpc = <<>>
    /\ results = <<>>
    /\ fault = <<>>
    /\ completed = <<>>
    /\ sent = {}
    /\ orders_db = {}
    /\ batch_response = NoResponse
    /\ InitMoreVars

NextBatch ==
    \/ ExecuteBatch
    \/ \E i \in Tasks : StartTask(i)
    \/ \E i \in Tasks : ResumeTask(i)
    \/ \E i \in Tasks, r \in PlaceResponses, ok \in BOOLEAN : PlaceRespond(i, r, ok)
    \/ BatchReturn

SpecBatch == InitBatch /\ [][NextBatch]_vars

-----------------------------------------------------------------------------
(* The admission gate of execute_batch_orders under load: real market       *)
(* batches of up to MaxQueue instructions, for an active client (the order  *)
(* goes upstream) or an inactive one (the instruction fails at once).       *)

MaxQueue == 3

GateOrders == {ClientOrder(1, 1, None), ClientOrder(2, 1, Some(10))}

GateRequests ==
    {BatchOrderRequest("MKT", None, None, "interactive", FALSE, mc, cos) :
        mc \in {1, 2}, cos \in SeqsUpTo(GateOrders, MaxQueue)}

InitGate ==
    /\ now = 0
    /\ expiry_out = -1
    /\ InitAuthVars
    /\ request \in GateRequests
    /\ bstate = "received"
    /\ valid_orders = <<>>
    /\ sem_value = 0
    /\ sem_waiters = <<>>
    /\ tpc = <<>>
    /\ results = <<>>
    /\ fault = <<>>
    /\ completed = <<>>
    /\ sent = {}
    /\ orders_db = {}
    /\ batch_response = NoResponse
    /\ InitMoreVars

SpecGate == InitGate /\ [][NextBatch]_vars

\* The event loop runs every task that is ready, every place-order request
\* is answered or times out (httpx timeout), and the handler runs on.
GateFairness ==
    /\ WF_vars(ExecuteBatch)
    /\ \A i \in 1..(MaxQueue + 1) :
           /\ WF_vars(StartTask(i))
           /\ WF_vars(ResumeTask(i))
           /\ WF_vars(\E r \in PlaceResponses, ok \in BOOLEAN : PlaceRespond(i, r, ok))
    /\ WF_vars(BatchReturn)

SpecGateFair == SpecGate /\ GateFairness

-----------------------------------------------------------------------------
(* OrderGateway: MOFSLApiWrapper.place_order called on its own *)

\* The order_details object place_order reads
OrderDetails(order_type, quantity, price, trigger_price, disclosed_quantity) ==
    [order_type |-> order_type, quantity |-> quantity, price |-> price,
     trigger_price |-> trigger_price, disclosed_quantity |-> disclosed_quantity]

\* The orders place_order may be handed: it does not require that they passed
\* the schema validators.
OrderDetailsInputs ==
    {OrderDetails(ot, q, pr, tp, dq) :
        ot \in {"MKT", "LMT", "SLM", "SL"},
        q \in {-1, 0, 1, 2},
        pr \in {None, Some(0), Some(10)},
        tp \in {None, Some(0), Some(5)},
        dq \in {0, 1, 2}}

\* MOFSLApiWrapper._validate_order_details with its last check, on the
\* disclosed quantity: the message raised, "" when valid.
validate_order(od) ==
    LET e == validate_order_details(od.order_type, od.quantity, od.price,
                                    od.trigger_price)
    IN  IF e # "" THEN e
        ELSE IF od.disclosed_quantity # 0 /\ od.disclosed_quantity > od.quantity
        THEN "Disclosed quantity cannot be greater than total quantity"
        ELSE ""

PlaceReturned(order_id) == [kind |-> "order_id", order_id |-> order_id, error |-> ""]
PlaceRaised(msg) == [kind |-> "error", order_id |-> "", error |-> msg]

\* place_order up to its first suspension: the order is validated and mapped,
\* and the request is sent.
PlaceOrderCall ==
    /\ ppc = "idle"
    /\ order_details # <<>>
    /\ LET e == validate_order(order_details)
       IN  IF e # ""
           THEN /\ ppc' = "done"
                /\ place_ret' = PlaceRaised(e)
                /\ UNCHANGED place_requests
           ELSE /\ ppc' = "awaiting"
                /\ place_requests' = place_requests + 1
                /\ UNCHANGED place_ret
    /\ UNCHANGED <<now, expiry_out, authVars, batchVars, exitVars, cacheVars, filterVars, storeVars, classifyVars, order_details>>

\* place_order from the answer of the upstream to its return.
PlaceOrderRespond(resp) ==
    /\ ppc = "awaiting"
    /\ ppc' = "done"
    /\ LET e == make_authenticated_request(resp)
       IN  place_ret' =
               IF e # "" THEN PlaceRaised(e)
               ELSE IF extract_order_id(resp) = ""
               THEN PlaceRaised("Order ID not found in response")
               ELSE PlaceReturned(extract_order_id(resp))
    /\ UNCHANGED <<now, expiry_out, authVars, batchVars, exitVars, cacheVars, filterVars, storeVars, classifyVars, order_details,
                   place_requests>>

InitPlace ==
    /\ now = 0
    /\ expiry_out = -1
    /\ InitAuthVars
    /\ InitBatchVars
    /\ order_details \in OrderDetailsInputs
    /\ ppc = "idle"
    /\ place_requests = 0
    /\ place_ret = <<>>
    /\ InitExitVars
    /\ InitCacheVars
    /\ InitFilterVars
    /\ InitStoreVars
    /\ InitClassifyVars

NextPlace ==
    \/ PlaceOrderCall
    \/ \E r \in PlaceResponses : PlaceOrderRespond(r)

SpecPlace == InitPlace /\ [][NextPlace]_vars

-----------------------------------------------------------------------------
(* Exit variant of the BatchExecutionEngine: exit_all_positions *)

MaxPositions == 2

\* asyncio.Semaphore(5)
ExitConcurrency == 5

\* ExitOrderRequest (the fields the execution reads); client_filter is the
\* list of client ids, empty when none is given.
ExitOrderRequest(order_type, price, segment, client_filter, min_quantity, dry_run) ==
    [order_type |-> order_type, price |-> price, segment |-> segment,
     client_filter |-> client_filter, min_quantity |-> min_quantity,
     dry_run |-> dry_run]

ExitRequests ==
    {ExitOrderRequest(k[1], k[2], sg, cf, mq, dr) :
        k \in {<<"MKT", None>>, <<"LMT", None>>, <<"LMT", Some(10)>>},
        sg \in Segments,
        cf \in {<<>>, <<1, 2, 3>>, <<2>>},
        mq \in {1, 3},
        dr \in BOOLEAN}

\* A position of the upstream for the token: its 'quantity', and whether
\* int() accepts that value.
Position(quantity, well_formed) ==
    [quantity |-> quantity, well_formed |-> well_formed]

PositionValues ==
    {Position(-3, TRUE), Position(0, TRUE), Position(2, TRUE), Position(0, FALSE)}

\* What get_client_positions_for_token meets: a failure of authenticate_client
\* or of get_positions, or the positions the upstream holds for the token.
FetchOutcomes ==
    {[failed |-> TRUE, positions |-> <<>>]}
    \cup {[failed |-> FALSE, positions |-> pl] :
             pl \in SeqsUpTo(PositionValues, MaxPositions) \cup {<<>>}}

\* get_client_positions_for_token: the positions of the token, the empty list
\* when anything failed (lines 291-293).
get_client_positions_for_token(outcome) ==
    IF outcome.failed THEN <<>> ELSE outcome.positions

\* The rows of the clients table in the order of their ids (the ids are 1..n).
ClientsInOrder == [i \in 1..Cardinality(ClientIds) |-> i]

\* The two queries of lines 464-474
QueryClients(req) ==
    IF req.client_filter # <<>>
    THEN SelectSeq(ClientsInOrder,
                   LAMBDA c : /\ \E k \in 1..Len(req.client_filter) :
                                     req.client_filter[k] = c
                              /\ ClientRow(c).is_active)
    ELSE SelectSeq(ClientsInOrder,
                   LAMBDA c : /\ ClientRow(c).is_active
                              /\ ClientRow(c).interactive.api_key # EncNone)

Abs(q) == IF q < 0 THEN -q ELSE q

\* The per-client dicts of the result list
ExitResult(client_id, success, positions_exited, errors) ==
    [client_id |-> client_id, success |-> success,
     positions_exited |-> positions_exited, errors |-> errors]

NoExitResult == ExitResult(0, FALSE, 0, <<>>)

\* An exit on the side of the position
ExitSameSide(current_qty) == IF current_qty > 0 THEN "BUY" ELSE "SELL"

\* "SELL" if current_qty > 0 else "BUY"
ExitTransaction(current_qty) == IF current_qty > 0 THEN "SELL" ELSE "BUY"

\* The exit order sent for position k of task t
ExitOrder(t, client_id, k, current_qty) ==
    [task |-> t, client_id |-> client_id, position |-> k,
     transaction_type |-> ExitTransaction(current_qty),
     quantity |-> Abs(current_qty)]

\* The locals of execute_client_exit
ExitTask(pc, k, count, errors) ==
    [pc |-> pc, k |-> k, count |-> count, errors |-> errors]

\* exit_all_positions from its entry to the loop over the clients.
ExitStart ==
    /\ estate = "received"
    /\ LET cs == QueryClients(exit_request)
       IN  IF cs = <<>>
           THEN estate' = "rejected" /\ UNCHANGED clients
           ELSE estate' = "fetching" /\ clients' = cs
    /\ UNCHANGED <<now, expiry_out, authVars, batchVars, placeVars, cacheVars, filterVars, storeVars, classifyVars, exit_request,
                   fetch_log, exit_results, clients_to_exit, etasks,
                   client_results, exit_sent, exit_rows, exit_response>>

\* One turn of the loop of lines 488-510, and what follows the loop after
\* its last turn: the early return of lines 512-522, or the creation of the
\* tasks handed to asyncio.gather.
FetchPositions(outcome) ==
    /\ estate = "fetching"
    /\ LET i == Len(fetch_log) + 1
           c == clients[i]
           positions == get_client_positions_for_token(outcome)
           raised == \E k \in 1..Len(positions) : ~positions[k].well_formed
           exit_positions ==
               SelectSeq(positions,
                         LAMBDA pos : Abs(pos.quantity) >= exit_request.min_quantity)
           new_results ==
               IF raised
               THEN Append(exit_results,
                           ExitResult(c, FALSE, 0,
                                      <<"Failed to fetch positions: invalid literal for int()">>))
               ELSE exit_results
           new_to_exit ==
               IF ~raised /\ exit_positions # <<>>
               THEN Append(clients_to_exit,
                           [client_id |-> c, positions |-> exit_positions])
               ELSE clients_to_exit
       IN  /\ ~decrypt_client_credentials_ok(ClientRow(c), exit_request.segment)
                  => outcome.failed
           /\ fetch_log' = Append(fetch_log, [client_id |-> c,
                                              failed |-> outcome.failed,
                                              positions |-> outcome.positions])
           /\ exit_results' = new_results
           /\ clients_to_exit' = new_to_exit
           /\ IF i < Len(clients)
              THEN UNCHANGED <<estate, etasks, client_results, exit_response>>
              ELSE IF new_to_exit = <<>>
              THEN /\ estate' = "returned"
                   /\ exit_response' =
                          [success |-> TRUE, results |-> new_results,
                           clients_processed |-> Len(clients),
                           clients_with_positions |-> 0,
                           total_positions_exited |-> 0]
                   /\ UNCHANGED <<etasks, client_results>>
              ELSE /\ estate' = "running"
                   /\ etasks' = [t \in 1..Len(new_to_exit) |->
                                    ExitTask("created", 0, 0, <<>>)]
                   /\ client_results' = [t \in 1..Len(new_to_exit) |-> NoExitResult]
                   /\ UNCHANGED exit_response
    /\ UNCHANGED <<now, expiry_out, authVars, batchVars, placeVars, cacheVars, filterVars, storeVars, classifyVars, exit_request,
                   clients, exit_sent, exit_rows>>

RECURSIVE Advance(_, _, _, _, _)
\* The loop of lines 533-590 from position k up to the next await of
\* place_order, or to its end: k, client_exit_count and client_errors there.
Advance(req, positions, k, count, errors) ==
    IF k > Len(positions)
    THEN [place |-> FALSE, k |-> k, count |-> count, errors |-> errors]
    ELSE IF positions[k].quantity = 0
    THEN Advance(req, positions, k + 1, count, errors)
    ELSE IF req.dry_run
    THEN Advance(req, positions, k + 1, count + 1, errors)
    ELSE IF req.order_type = "LMT" /\ req.price = None
    THEN Advance(req, positions, k + 1, count,
                 Append(errors, "Position exit failed: Price is required for limit and stop-loss orders"))
    ELSE [place |-> TRUE, k |-> k, count |-> count, errors |-> errors]

\* A task goes on from where Advance stopped: it sends the exit order of
\* position adv.k, or it has left the loop, commits (line 592) and returns.
Proceed(t, adv, rows, commit_ok) ==
    LET c == clients_to_exit[t].client_id
        positions == clients_to_exit[t].positions
    IN  IF adv.place
        THEN /\ etasks' = [etasks EXCEPT ![t] =
                              ExitTask("placing", adv.k, adv.count, adv.errors)]
             /\ exit_sent' = exit_sent \cup
                                {ExitOrder(t, c, adv.k, positions[adv.k].quantity)}
             /\ exit_rows' = rows
             /\ UNCHANGED client_results
        ELSE /\ etasks' = [etasks EXCEPT ![t] =
                              ExitTask("done", adv.k, adv.count, adv.errors)]
             /\ UNCHANGED exit_sent
             /\ IF commit_ok
                THEN /\ exit_rows' = [pending |-> {},
                                      committed |-> rows.committed \cup rows.pending]
                     /\ client_results' = [client_results EXCEPT ![t] =
                            ExitResult(c, adv.errors = <<>>, adv.count, adv.errors)]
                ELSE /\ exit_rows' = [pending |-> {}, committed |-> rows.committed]
                     /\ client_results' = [client_results EXCEPT ![t] =
                            ExitResult(c, FALSE, 0, <<"db.commit() failed">>)]

\* execute_client_exit from the semaphore to the first exit order: the answer
\* of authenticate_client, then the loop over the positions.
ExitAuth(t, auth_ok, commit_ok) ==
    /\ estate = "running"
    /\ t \in DOMAIN etasks
    /\ etasks[t].pc = "created"
    /\ Cardinality({u \in DOMAIN etasks : etasks[u].pc = "placing"}) < ExitConcurrency
    /\ LET c == clients_to_exit[t].client_id
       IN  /\ auth_ok => decrypt_client_credentials_ok(ClientRow(c), exit_request.segment)
           /\ IF auth_ok
              THEN Proceed(t, Advance(exit_request, clients_to_exit[t].positions,
                                      1, 0, <<>>),
                           exit_rows, commit_ok)
              ELSE /\ etasks' = [etasks EXCEPT ![t] = ExitTask("done", 0, 0, <<>>)]
                   /\ client_results' = [client_results EXCEPT ![t] =
                          ExitResult(c, FALSE, 0, <<"Authentication failed">>)]
                   /\ UNCHANGED <<exit_sent, exit_rows>>
    /\ UNCHANGED <<now, expiry_out, authVars, batchVars, placeVars, cacheVars, filterVars, storeVars, classifyVars, exit_request,
                   estate, clients, fetch_log, exit_results, clients_to_exit,
                   exit_response>>

\* The answers of the place-order endpoint to an exit order
ExitPlaceResponses ==
    {PlaceResponse(500, "error", FALSE, "", ""),
     PlaceResponse(200, "success", TRUE, "ORD-D", "ORD-R")}

\* execute_client_exit from the answer of place_order on.
ExitPlaceRespond(t, resp, commit_ok) ==
    /\ estate = "running"
    /\ t \in DOMAIN etasks
    /\ etasks[t].pc = "placing"
    /\ LET c == clients_to_exit[t].client_id
           positions == clients_to_exit[t].positions
           k == etasks[t].k
           e == IF make_authenticated_request(resp) # ""
                THEN make_authenticated_request(resp)
                ELSE IF extract_order_id(resp) = ""
                THEN "Order ID not found in response"
                ELSE ""
           row == [order_id |-> extract_order_id(resp), client_id |-> c,
                   transaction_type |-> ExitTransaction(positions[k].quantity),
                   quantity |-> Abs(positions[k].quantity)]
       IN  IF e = ""
           THEN Proceed(t, Advance(exit_request, positions, k + 1,
                                   etasks[t].count + 1, etasks[t].errors),
                        [exit_rows EXCEPT !.pending = @ \cup {row}], commit_ok)
           ELSE Proceed(t, Advance(exit_request, positions, k + 1,
                                   etasks[t].count,
                                   Append(etasks[t].errors, "Position exit failed")),
                        exit_rows, commit_ok)
    /\ UNCHANGED <<now, expiry_out, authVars, batchVars, placeVars, cacheVars, filterVars, storeVars, classifyVars, exit_request,
                   estate, clients, fetch_log, exit_results, clients_to_exit,
                   exit_response>>

RECURSIVE SumExited(_)
\* sum(r["positions_exited"] for r in final_results)
SumExited(rs) ==
    IF rs = <<>> THEN 0 ELSE Head(rs).positions_exited + SumExited(Tail(rs))

\* A flag that asks every client to have succeeded
ExitAllSucceeded(final_results) ==
    \A k \in 1..Len(final_results) : final_results[k].success

\* The overall flag of the result: len(successful_exits) > 0
ExitSuccess(final_results) ==
    \E k \in 1..Len(final_results) : final_results[k].success

\* exit_all_positions from the return of asyncio.gather on (lines 624-661).
ExitReturn ==
    /\ estate = "running"
    /\ \A t \in DOMAIN etasks : etasks[t].pc = "done"
    /\ estate' = "returned"
    /\ LET final_results == client_results \o exit_results
       IN  exit_response' =
               [success |-> ExitSuccess(final_results),
                results |-> final_results,
                clients_processed |-> Len(clients),
                clients_with_positions |-> Len(clients_to_exit),
                total_positions_exited |-> SumExited(final_results)]
    /\ UNCHANGED <<now, expiry_out, authVars, batchVars, placeVars, cacheVars, filterVars, storeVars, classifyVars, exit_request,
                   clients, fetch_log, exit_results, clients_to_exit, etasks,
                   client_results, exit_sent, exit_rows>>

InitExit ==
    /\ now = 0
    /\ expiry_out = -1
    /\ InitAuthVars
    /\ InitBatchVars
    /\ InitPlaceVars
    /\ exit_request \in ExitRequests
    /\ estate = "received"
    /\ clients = <<>>
    /\ fetch_log = <<>>
    /\ exit_results = <<>>
    /\ clients_to_exit = <<>>
    /\ etasks = <<>>
    /\ client_results = <<>>
    /\ exit_sent = {}
    /\ exit_rows = [pending |-> {}, committed |-> {}]
    /\ exit_response = <<>>
    /\ InitCacheVars
    /\ InitFilterVars
    /\ InitStoreVars
    /\ InitClassifyVars

NextExit ==
    \/ ExitStart
    \/ \E o \in FetchOutcomes : FetchPositions(o)
    \/ \E t \in 1..Cardinality(ClientIds), a \in BOOLEAN, ok \in BOOLEAN :
           ExitAuth(t, a, ok)
    \/ \E t \in 1..Cardinality(ClientIds), r \in ExitPlaceResponses, ok \in BOOLEAN :
           ExitPlaceRespond(t, r, ok)
    \/ ExitReturn

SpecExit == InitExit /\ [][NextExit]_vars

-----------------------------------------------------------------------------
(* The two endpoints of the engine side by side: one call of either, the    *)
(* batch with its instructions admitted one at a time                       *)

InitEngine ==
    \/ InitBatch /\ request.max_concurrent = 1
                 /\ request.order_type \in {"MKT", "LMT"}
    \/ InitExit

NextEngine == NextBatch \/ NextExit

SpecEngine == InitEngine /\ [][NextEngine]_vars

-----------------------------------------------------------------------------
(* InstrumentCache: the routes /tokens/search and /tokens/cache/refresh     *)
(* (app/api/tokens.py). Strings that are searched are sequences of          *)
(* one-character strings.                                                   *)

MaxFetches == 2
MaxCacheNow == 90

\* expire_seconds=3600, in minutes
CacheTTL == 60

\* instruments[:100], len(query) < 2, filtered[:50]
UnfilteredCap == 100
MinQueryLength == 2
FilterCap == 50

\* str.lower() on one character
LowerChar(c) ==
    CASE c = "R" -> "r"
      [] c = "E" -> "e"
      [] c = "L" -> "l"
      [] c = "X" -> "x"
      [] c = "D" -> "d"
      [] c = "O" -> "o"
      [] c = "N" -> "n"
      [] OTHER -> c

\* str.lower()
lower(str) == [i \in 1..Len(str) |-> LowerChar(str[i])]

\* needle in hay
IsIn(needle, hay) ==
    \E i \in 0..(Len(hay) - Len(needle)) :
        SubSeq(hay, i + 1, i + Len(needle)) = needle

\* str.startswith(prefix)
startswith(str, prefix) ==
    Len(prefix) <= Len(str) /\ SubSeq(str, 1, Len(prefix)) = prefix

\* seq[:n]
Slice(seq, n) == SubSeq(seq, 1, IF n < Len(seq) THEN n ELSE Len(seq))

\* A record of the catalog: the fields the search reads, and whether the
\* record has the fields the response schema (schemas.Token) requires.
Instrument(symbol, name, token, conforms) ==
    [symbol |-> symbol, name |-> name, token |-> token, conforms |-> conforms]

InstrumentValues ==
    {Instrument(<<"R", "E", "L">>, <<"R", "e", "l">>, <<"1">>, TRUE),
     Instrument(<<"R", "E", "L", "X">>, <<"R", "e", "l", "x">>, <<"2">>, TRUE),
     Instrument(<<"X", "R", "E", "L">>, <<"X">>, <<"1", "2">>, TRUE),
     Instrument(<<"X">>, <<"r", "e", "l">>, <<"2", "1">>, TRUE),
     Instrument(<<"X", "X">>, <<"X", "X">>, <<"2", "2">>, TRUE),
     Instrument(<<"r", "e", "l">>, <<"X">>, <<"1", "1">>, FALSE)}

\* A sort key that ranks nothing
sort_key_flat(item, query_lower) == 2

\* filter_instruments.sort_key
sort_key(item, query_lower) ==
    IF lower(item.symbol) = query_lower THEN 0
    ELSE IF startswith(lower(item.symbol), query_lower) THEN 1
    ELSE 2

\* filtered.sort(key=sort_key): a stable sort. The item at position i goes
\* behind the items of a lower key and the items of its own key before it.
SortByKey(filtered, query_lower) ==
    LET n == Len(filtered)
        keys == <<>> \o [i \in 1..n |-> sort_key(filtered[i], query_lower)]
        place == <<>> \o [i \in 1..n |->
                     Cardinality({j \in 1..n :
                         \/ keys[j] < keys[i]
                         \/ keys[j] = keys[i] /\ j <= i})]
    IN  [r \in 1..n |-> filtered[CHOOSE i \in 1..n : place[i] = r]]

\* filter_instruments
filter_instruments(instruments, query) ==
    IF Len(query) < MinQueryLength
    THEN Slice(instruments, UnfilteredCap)
    ELSE LET query_lower == lower(query)
             filtered ==
                 SelectSeq(instruments,
                           LAMBDA instrument :
                               \/ IsIn(query_lower, lower(instrument.symbol))
                               \/ IsIn(query_lower, lower(instrument.name))
                               \/ IsIn(query_lower, lower(instrument.token))
                               \/ startswith(lower(instrument.symbol), query_lower))
         IN  Slice(SortByKey(filtered, query_lower), FilterCap)

\* What a route of the tokens router gives its caller
RouteOk(data, total) == [kind |-> "ok", data |-> data, total |-> total, detail |-> ""]
RouteError(detail) == [kind |-> "error", data |-> <<>>, total |-> 0, detail |-> detail]
NoRouteReturn == [kind |-> "none", data |-> <<>>, total |-> 0, detail |-> ""]

\* search_tokens from the filter to its return (lines 227-252): the response
\* is built only from records its schema accepts.
SearchResponse(instruments_data, query, lim) ==
    LET filtered_instruments == filter_instruments(instruments_data, query)
        limited_results == Slice(filtered_instruments, lim)
    IN  IF \E k \in 1..Len(limited_results) : ~limited_results[k].conforms
        THEN RouteError("Failed to search instruments")
        ELSE RouteOk(limited_results, Len(filtered_instruments))

\* exchange.upper()
upper(exchange) == IF exchange = "nse" THEN "NSE" ELSE exchange

valid_exchanges == {"NSE", "BSE", "MCX", "NCDEX", "CDS"}

ExchangeInputs == {"NSE", "nse", "BSE", "XYZ"}

\* An entry that expires at once
CacheEntryExpired(data, t) == [data |-> data, expires_at |-> t]

\* redis_client.setex(cache_key, 3600, json.dumps(data))
CacheEntry(data, t) == [data |-> data, expires_at |-> t + CacheTTL]

\* get_cached_data: None, or the list stored under the key and not expired
get_cached_data(cache_key) ==
    IF ~redis_up THEN None
    ELSE IF cache_key \in DOMAIN redis /\ now < redis[cache_key].expires_at
    THEN Some(redis[cache_key].data)
    ELSE None

\* `if cached_instruments:` (line 210)
Truthy(cached_instruments) ==
    cached_instruments # None /\ cached_instruments[1] # <<>>

\* set_cached_data: the keys of Redis afterwards
set_cached_data(cache_key, data) ==
    IF ~redis_up THEN redis
    ELSE [k \in DOMAIN redis \cup {cache_key} |->
             IF k = cache_key THEN CacheEntry(data, now) ELSE redis[k]]

\* get_master_client: the first active client with an interactive api key,
\* 0 when there is none.
get_master_client ==
    LET found == QueryClients(ExitOrderRequest("", None, "", <<>>, 0, FALSE))
    IN  IF found = <<>> THEN 0 ELSE found[1]

\* The arguments of a route call in progress
RouteCall(pc, op, exchange, query, lim, use_cache) ==
    [pc |-> pc, op |-> op, exchange |-> exchange, q |-> query, limit |-> lim,
     use_cache |-> use_cache]

NoRouteCall == RouteCall("idle", "", "", <<>>, 0, FALSE)

\* What search_instruments gives: a failure, or the catalog of the exchange
CatalogOutcomes ==
    {[failed |-> TRUE, catalog |-> <<>>]}
    \cup {[failed |-> FALSE, catalog |-> c] :
             c \in {<<>>,
                    <<Instrument(<<"R", "E", "L", "X">>, <<"R", "e", "l", "x">>, <<"2">>, TRUE),
                      Instrument(<<"R", "E", "L">>, <<"R", "e", "l">>, <<"1">>, TRUE)>>,
                    <<Instrument(<<"r", "e", "l">>, <<"X">>, <<"1", "1">>, FALSE)>>}}

\* The part of search_tokens and of refresh_instrument_cache that leads to
\* the catalog request: master client, authentication, request sent.
StartFetch(p, call, auth_ok) ==
    IF get_master_client = 0
    THEN /\ scall' = [scall EXCEPT ![p] = [call EXCEPT !.pc = "done"]]
         /\ sret' = [sret EXCEPT ![p] =
                        RouteError("No master client available for instrument search")]
         /\ UNCHANGED catalog_fetches
    ELSE IF ~auth_ok
    THEN /\ scall' = [scall EXCEPT ![p] = [call EXCEPT !.pc = "done"]]
         /\ sret' = [sret EXCEPT ![p] = RouteError("Failed")]
         /\ UNCHANGED catalog_fetches
    ELSE /\ catalog_fetches < MaxFetches
         /\ scall' = [scall EXCEPT ![p] = [call EXCEPT !.pc = "fetching"]]
         /\ catalog_fetches' = catalog_fetches + 1
         /\ UNCHANGED sret

\* search_tokens from its entry to its return on a cache hit, or to the
\* catalog request otherwise.
SearchCall(p, exchange, query, lim, use_cache, auth_ok) ==
    /\ scall[p].pc = "idle"
    /\ auth_ok => decrypt_client_credentials_ok(ClientRow(get_master_client), "interactive")
    /\ LET call == RouteCall("idle", "search", upper(exchange), query, lim, use_cache)
           cached_instruments ==
               IF use_cache THEN get_cached_data(upper(exchange)) ELSE None
       IN  IF upper(exchange) \notin valid_exchanges
           THEN /\ scall' = [scall EXCEPT ![p] = [call EXCEPT !.pc = "done"]]
                /\ sret' = [sret EXCEPT ![p] = RouteError("Invalid exchange")]
                /\ UNCHANGED catalog_fetches
           ELSE IF Truthy(cached_instruments)
           THEN /\ scall' = [scall EXCEPT ![p] = [call EXCEPT !.pc = "done"]]
                /\ sret' = [sret EXCEPT ![p] =
                               SearchResponse(cached_instruments[1], query, lim)]
                /\ UNCHANGED catalog_fetches
           ELSE StartFetch(p, call, auth_ok)
    /\ UNCHANGED <<now, expiry_out, authVars, batchVars, placeVars, exitVars,
                   filterVars, storeVars, classifyVars, redis_up, redis>>

\* search_tokens from the answer of search_instruments on.
SearchFetched(p, outcome) ==
    /\ scall[p].pc = "fetching"
    /\ scall[p].op = "search"
    /\ scall' = [scall EXCEPT ![p].pc = "done"]
    /\ IF outcome.failed
       THEN /\ sret' = [sret EXCEPT ![p] = RouteError("Failed to search instruments")]
            /\ UNCHANGED redis
       ELSE /\ redis' = IF scall[p].use_cache
                        THEN set_cached_data(scall[p].exchange, outcome.catalog)
                        ELSE redis
            /\ sret' = [sret EXCEPT ![p] =
                           SearchResponse(outcome.catalog, scall[p].q, scall[p].limit)]
    /\ UNCHANGED <<now, expiry_out, authVars, batchVars, placeVars, exitVars,
                   filterVars, storeVars, classifyVars, redis_up, catalog_fetches>>

\* refresh_instrument_cache from its entry to the catalog request.
RefreshCall(p, exchange, auth_ok) ==
    /\ scall[p].pc = "idle"
    /\ auth_ok => decrypt_client_credentials_ok(ClientRow(get_master_client), "interactive")
    /\ LET call == RouteCall("idle", "refresh", upper(exchange), <<>>, 0, FALSE)
       IN  IF upper(exchange) \notin valid_exchanges
           THEN /\ scall' = [scall EXCEPT ![p] = [call EXCEPT !.pc = "done"]]
                /\ sret' = [sret EXCEPT ![p] = RouteError("Invalid exchange")]
                /\ UNCHANGED catalog_fetches
           ELSE StartFetch(p, call, auth_ok)
    /\ UNCHANGED <<now, expiry_out, authVars, batchVars, placeVars, exitVars,
                   filterVars, storeVars, classifyVars, redis_up, redis>>

\* refresh_instrument_cache from the answer of search_instruments on: the
\* caller is given the catalog's record count.
RefreshFetched(p, outcome) ==
    /\ scall[p].pc = "fetching"
    /\ scall[p].op = "refresh"
    /\ scall' = [scall EXCEPT ![p].pc = "done"]
    /\ IF outcome.failed
       THEN /\ sret' = [sret EXCEPT ![p] = RouteError("Failed to refresh cache")]
            /\ UNCHANGED redis
       ELSE /\ redis' = set_cached_data(scall[p].exchange, outcome.catalog)
            /\ sret' = [sret EXCEPT ![p] = RouteOk(outcome.catalog, Len(outcome.catalog))]
    /\ UNCHANGED <<now, expiry_out, authVars, batchVars, placeVars, exitVars,
                   filterVars, storeVars, classifyVars, redis_up, catalog_fetches>>

\* The caller takes the result; the caller is free for its next call.
RouteReturn(p) ==
    /\ scall[p].pc = "done"
    /\ scall' = [scall EXCEPT ![p] = NoRouteCall]
    /\ sret' = [sret EXCEPT ![p] = NoRouteReturn]
    /\ UNCHANGED <<now, expiry_out, authVars, batchVars, placeVars, exitVars,
                   filterVars, storeVars, classifyVars, redis_up, redis, catalog_fetches>>

\* Time passes, half a TTL at a time; Redis drops the keys that expired.
CacheTick ==
    /\ now + CacheTTL \div 2 <= MaxCacheNow
    /\ now' = now + CacheTTL \div 2
    /\ redis' = [k \in {x \in DOMAIN redis : now' < redis[x].expires_at} |-> redis[k]]
    /\ UNCHANGED <<expiry_out, authVars, batchVars, placeVars, exitVars,
                   filterVars, storeVars, classifyVars, redis_up, catalog_fetches, scall, sret>>

InitCache ==
    /\ now = 0
    /\ expiry_out = -1
    /\ InitAuthVars
    /\ InitBatchVars
    /\ InitPlaceVars
    /\ InitExitVars
    /\ InitFilterVars
    /\ InitStoreVars
    /\ InitClassifyVars
    /\ redis_up \in BOOLEAN
    /\ redis = <<>>
    /\ catalog_fetches = 0
    /\ scall = [p \in Callers |-> NoRouteCall]
    /\ sret = [p \in Callers |-> NoRouteReturn]

NextCache ==
    \/ \E p \in Callers, x \in ExchangeInputs, u \in BOOLEAN, a \in BOOLEAN :
           SearchCall(p, x, <<"r", "e">>, 1, u, a)
    \/ \E p \in Callers, o \in CatalogOutcomes : SearchFetched(p, o)
    \/ \E p \in Callers, x \in ExchangeInputs, a \in BOOLEAN : RefreshCall(p, x, a)
    \/ \E p \in Callers, o \in CatalogOutcomes : RefreshFetched(p, o)
    \/ \E p \in Callers : RouteReturn(p)
    \/ CacheTick

SpecCache == InitCache /\ [][NextCache]_vars

-----------------------------------------------------------------------------
(* The search of a catalog as a function of the catalog, the query and the  *)
(* limit: search_tokens from line 227 on, applied to inputs drawn at Init.  *)

MaxCatalog == 3

\* q: min_length=1 (line 168)
QueryInputs ==
    {<<"r">>, <<"r", "e", "l">>, <<"R", "E", "L">>, <<"e", "l">>, <<"1", "2">>, <<"x", "x">>}

\* limit: ge=1, le=100 (line 170)
LimitInputs == {1, 2, 100}

\* Catalogs longer than both caps of filter_instruments: records whose symbol
\* starts with "rel", the last one with the symbol "REL".
LongCatalogs ==
    {[i \in 1..n |->
         IF i = n
         THEN Instrument(<<"R", "E", "L">>, <<"R", "e", "l">>, <<"1">>, TRUE)
         ELSE Instrument(<<"R", "E", "L", "X">>, <<"R", "e", "l", "x">>, <<"2">>, TRUE)] :
        n \in {FilterCap + 1, UnfilteredCap + 1}}

FilterInputs ==
    [instruments_data : SeqsUpTo(InstrumentValues, MaxCatalog) \cup LongCatalogs,
     q : QueryInputs,
     limit : LimitInputs]

\* search_tokens, lines 227-252, on the drawn inputs
SearchCatalog ==
    /\ filter_output = NoRouteReturn
    /\ filter_output' = SearchResponse(filter_input.instruments_data,
                                       filter_input.q, filter_input.limit)
    /\ UNCHANGED <<now, expiry_out, authVars, batchVars, placeVars, exitVars,
                   cacheVars, storeVars, classifyVars, filter_input>>

InitFilter ==
    /\ now = 0
    /\ expiry_out = -1
    /\ InitAuthVars
    /\ InitBatchVars
    /\ InitPlaceVars
    /\ InitExitVars
    /\ InitCacheVars
    /\ InitStoreVars
    /\ InitClassifyVars
    /\ filter_input \in FilterInputs
    /\ filter_output = NoRouteReturn

NextFilter == SearchCatalog

SpecFilter == InitFilter /\ [][NextFilter]_vars

-----------------------------------------------------------------------------
(* cancel_order and modify_order from the response to their request on      *)
(* (mofsl_api_wrapper.py 966-978 and 1009-1021), as a function of the       *)
(* response.                                                                *)

\* A response to a cancel or modify request: the status code, the "status" of
\* the body ("" when it has none), its "data" section (absent, a dict with
\* status "success", another dict, or a list) and its "message" (None when the
\* key is absent, JsonNull when it is null, else the text).
OpResponse(code, status, data, message) ==
    [code |-> code, status |-> status, has_data |-> data # "absent",
     data |-> data, message |-> message]

JsonNull == <<"<null>">>

MessageInputs ==
    {None, Some(JsonNull), Some(<<>>),
     Some(<<"d", "o", "n", "e">>), Some(<<"D", "O", "N", "E">>), Some(<<"u", "n", "d", "o", "n", "e">>),
     Some(<<"s", "u", "c", "c", "e", "s", "s", "f", "u", "l">>), Some(<<"c", "o", "m", "p", "l", "e", "t", "e", "d">>),
     Some(<<"f", "a", "i", "l", "e", "d">>)}

OpResponseInputs ==
    {OpResponse(c, st, d, m) :
        c \in {200, 201, 500},
        st \in {"success", "error", ""},
        d \in {"absent", "success", "other", "list"},
        m \in MessageInputs}

\* success_keywords (line 1182)
success_keywords ==
    <<<<"s", "u", "c", "c", "e", "s", "s">>,
      <<"s", "u", "c", "c", "e", "s", "s", "f", "u", "l">>,
      <<"c", "o", "m", "p", "l", "e", "t", "e", "d">>,
      <<"d", "o", "n", "e">>>>

\* A check that looks at the two status fields only
check_status_only(response_data) ==
    IF response_data.status = "success" \/ response_data.data = "success"
    THEN "True" ELSE "False"

\* MOFSLApiWrapper._check_order_operation_success: "True", "False", or
\* "raise" when message.lower() fails on a message that is not text.
check_order_operation_success(response_data) ==
    IF response_data.status = "success" THEN "True"
    ELSE IF response_data.message = Some(JsonNull) THEN "raise"
    ELSE LET message == lower(IF response_data.message = None
                              THEN <<>> ELSE response_data.message[1])
         IN  IF \E k \in 1..Len(success_keywords) : IsIn(success_keywords[k], message)
             THEN "True"
             ELSE IF response_data.data = "success" THEN "True"
             ELSE "False"

\* What cancel_order or modify_order gives its caller: a bool, or an exception
OpOutcome(raised, success) == [raised |-> raised, success |-> success]

\* cancel_order / modify_order from the response on
order_operation(resp) ==
    IF make_authenticated_request(resp) # "" THEN OpOutcome(TRUE, FALSE)
    ELSE LET is_successful == check_order_operation_success(resp)
         IN  IF is_successful = "raise" THEN OpOutcome(TRUE, FALSE)
             ELSE OpOutcome(FALSE, is_successful = "True")

OrderOperation ==
    /\ op_outcome = <<>>
    /\ op_outcome' = order_operation(op_response)
    /\ UNCHANGED <<now, expiry_out, authVars, batchVars, placeVars, exitVars,
                   cacheVars, filterVars, storeVars, auth_response, auth_outcome,
                   op_response>>

InitOrderOp ==
    /\ now = 0
    /\ expiry_out = -1
    /\ InitAuthVars
    /\ InitBatchVars
    /\ InitPlaceVars
    /\ InitExitVars
    /\ InitCacheVars
    /\ InitFilterVars
    /\ InitStoreVars
    /\ auth_response = <<>>
    /\ auth_outcome = <<>>
    /\ op_response \in OpResponseInputs
    /\ op_outcome = <<>>

NextOrderOp == OrderOperation

SpecOrderOp == InitOrderOp /\ [][NextOrderOp]_vars

-----------------------------------------------------------------------------
(* Claims about the SessionManager *)

\* A session is stored for the client and the current time is before its expiry.
ValidSessionFor(cid) ==
    cid \in DOMAIN auth_tokens /\ now < auth_tokens[cid].expires_at

\* No session is stored for the client, or the stored one has expired.
NoUsableSessionFor(cid) ==
    cid \notin DOMAIN auth_tokens \/ now >= auth_tokens[cid].expires_at

\* Caller p enters authenticate_client in this step.
Enters(p) == apc[p] = "idle" /\ apc'[p] # "idle"

\* Caller p receives the answer to its auth request in this step.
Answered(p) == apc[p] = "awaiting" /\ apc'[p] = "done"

\* All four base fields of the segment's credentials hold a proper value.
CredentialsGood(cid, segment) ==
    LET enc == SegmentCreds(ClientRow(cid), segment)
    IN  \A f \in {"api_key", "secret_key", "user_id", "password"} : enc[f] = EncGood

\* C1: authenticate(client, segment, forceRefresh=false), entered while the
\* store holds a session for client.id with now < expires_at, sends nothing
\* upstream, returns that very session and leaves the store as it is.
C1_CachedSessionServed ==
    [][\A p \in Callers :
         (/\ Enters(p)
          /\ ~aargs'[p].force_refresh
          /\ ValidSessionFor(aargs'[p].client_id))
         => /\ apc'[p] = "done"
            /\ aret'[p].kind = "token"
            /\ aret'[p].token = auth_tokens[aargs'[p].client_id]
            /\ auth_requests' = auth_requests
            /\ auth_tokens' = auth_tokens]_vars

\* C1 witness: a call without forced refresh has returned a token without
\* having sent an auth request.
C1_Witness ==
    \E p \in Callers :
        /\ apc[p] = "done"
        /\ ~aargs[p].force_refresh
        /\ aargs[p].serial = 0
        /\ aret[p].kind = "token"
        /\ aret[p].token = auth_tokens[aargs[p].client_id]

\* C2 as stated: authenticate entered with no session cached for the client,
\* or with an expired one, always sends exactly one auth request, and its
\* answer always puts a newly created session in the place of the prior one.
C2_AlwaysOneCallAndReplace ==
    [][\A p \in Callers :
         /\ (Enters(p) /\ NoUsableSessionFor(aargs'[p].client_id))
            => /\ apc'[p] = "awaiting"
               /\ auth_requests' = auth_requests + 1
         /\ Answered(p)
            => /\ auth_requests' = auth_requests
               /\ aret'[p].kind = "token"
               /\ aargs[p].client_id \in DOMAIN auth_tokens'
               /\ auth_tokens'[aargs[p].client_id] = aret'[p].token]_vars

\* C2 as amended: authenticate entered with no session cached for the client,
\* or with an expired one, sends exactly one auth request when the requested
\* segment's four credential fields are all present and valid, and none when
\* they are not; when the request is answered with a token, the newly created
\* session replaces whatever was stored for that client id and nothing else
\* changes; when it is answered otherwise the store stays as it was.
C2_OneCallAndReplaceOnSuccess ==
    [][\A p \in Callers :
         /\ (/\ Enters(p)
             /\ NoUsableSessionFor(aargs'[p].client_id)
             /\ CredentialsGood(aargs'[p].client_id, aargs'[p].segment))
            => /\ apc'[p] = "awaiting"
               /\ auth_requests' = auth_requests + 1
               /\ auth_tokens' = auth_tokens
         /\ (/\ Enters(p)
             /\ NoUsableSessionFor(aargs'[p].client_id)
             /\ ~CredentialsGood(aargs'[p].client_id, aargs'[p].segment))
            => /\ apc'[p] = "done"
               /\ aret'[p].kind = "error"
               /\ auth_requests' = auth_requests
               /\ auth_tokens' = auth_tokens
         /\ Answered(p)
            => /\ auth_requests' = auth_requests
               /\ IF aret'[p].kind = "token"
                  THEN LET cid == aargs[p].client_id
                       IN  /\ cid \in DOMAIN auth_tokens'
                           /\ auth_tokens'[cid] = aret'[p].token
                           /\ aret'[p].token.token.serial = aargs[p].serial
                           /\ aret'[p].token.client_id = cid
                           /\ now < aret'[p].token.expires_at
                           /\ \A x \in DOMAIN auth_tokens :
                                  auth_tokens[x] # aret'[p].token
                           /\ DOMAIN auth_tokens' = DOMAIN auth_tokens \cup {cid}
                           /\ \A x \in DOMAIN auth_tokens \ {cid} :
                                  auth_tokens'[x] = auth_tokens[x]
                  ELSE auth_tokens' = auth_tokens]_vars

\* C2 witness: one caller still holds the session it obtained earlier for a
\* client, and another caller's later auth request for the same client has
\* put a new session in its place.
C2_Witness ==
    \E p, q \in Callers :
        /\ apc[p] = "done" /\ apc[q] = "done"
        /\ aret[p].kind = "token" /\ aret[q].kind = "token"
        /\ aargs[p].client_id = aargs[q].client_id
        /\ aargs[q].serial > 0
        /\ aargs[p].serial > aargs[q].serial
        /\ auth_tokens[aargs[p].client_id] = aret[p].token
        /\ aret[p].token # aret[q].token

-----------------------------------------------------------------------------
(* Claims about the BatchExecutionEngine *)

\* The tasks that hold a slot of the semaphore
Admitted == {i \in Tasks : tpc[i] \in {"granted", "upstream"}}

\* The tasks whose place-order request is with the upstream
AwaitingUpstream == {i \in Tasks : tpc[i] = "upstream"}

\* C4: during executeBatch with maxConcurrent = k, at most k instructions are
\* past the admission gate, and so at most k await an upstream response; the
\* others wait.
C4_AtMostKAdmitted ==
    bstate = "running" =>
        /\ Cardinality(Admitted) <= request.max_concurrent
        /\ Cardinality(AwaitingUpstream) <= request.max_concurrent
        /\ \A i \in Tasks : tpc[i] = "waiting" =>
               Cardinality(Admitted) = request.max_concurrent

\* C4 witness: every slot is taken by an instruction awaiting the upstream
\* while another instruction waits at the gate.
C4_Witness ==
    /\ bstate = "running"
    /\ Cardinality(AwaitingUpstream) = request.max_concurrent
    /\ \E i \in Tasks : tpc[i] = "waiting"

\* The instructions of the request with quantity > 0, in input order
ExpectedOrders == SelectSeq(request.client_orders, LAMBDA co : co.quantity > 0)

\* C5: the result list has one outcome per instruction with quantity > 0, and
\* the outcome at position i carries the client id and quantity of the i-th
\* such instruction, whatever order the instructions finished in.
C5_ResultsInInputOrder ==
    bstate = "returned" =>
        /\ Len(batch_response.results) = Len(ExpectedOrders)
        /\ \A i \in 1..Len(ExpectedOrders) :
               /\ batch_response.results[i].client_id = ExpectedOrders[i].client_id
               /\ batch_response.results[i].quantity = ExpectedOrders[i].quantity

\* C5 witness: a batch has returned whose second instruction finished before
\* its first, and the two differ in client or quantity.
C5_Witness ==
    /\ bstate = "returned"
    /\ Len(completed) >= 2
    /\ completed[1] = 2
    /\ request.client_orders[1] # request.client_orders[2]
    /\ batch_response.results[1].success
    /\ ~batch_response.results[2].success

\* C6: once the preconditions have passed the batch call never fails: it is
\* running or has returned, and in the returned result every instruction that
\* met a failure of any kind has a failed outcome carrying that error's text.
C6_FailuresStayInOutcomes ==
    /\ bstate \in {"received", "rejected", "running", "returned"}
    /\ bstate = "returned" =>
           /\ DOMAIN batch_response.results = Tasks
           /\ \A i \in Tasks :
                  fault[i] # "" =>
                      /\ ~batch_response.results[i].success
                      /\ batch_response.results[i].error_message = fault[i]
                      /\ batch_response.results[i].order_id = ""

\* C6 witness: a batch has returned in which one instruction failed on an
\* unknown client, or on missing credentials, and another on the commit of its
\* order row.
C6_Witness ==
    /\ bstate = "returned"
    /\ \E i, j \in Tasks :
           /\ fault[i] \in {"Client not found", "Client does not have credentials"}
           /\ fault[j] = "db.commit() failed"

\* The instruction's client is a row of the clients table and is inactive.
TargetsInactive(co) ==
    co.client_id \in ClientIds /\ ~ClientRow(co.client_id).is_active

\* The instruction's client exists, is active and holds the segment's
\* credentials, and the order has the price and trigger price its kind needs.
ValidInstruction(req, co) ==
    /\ co.client_id \in ClientIds
    /\ ClientRow(co.client_id).is_active
    /\ \A f \in {"api_key", "secret_key", "user_id", "password"} :
           SegmentCreds(ClientRow(co.client_id), req.segment)[f] # EncNone
    /\ req.order_type \in {"LMT", "SL"} =>
           (co.price # None \/ req.default_price # None)
    /\ req.order_type \in {"SLM", "SL"} => req.trigger_price # None
    /\ co.quantity > 0

\* C7: an instruction that targets an inactive client has a failed outcome and
\* reaches neither the upstream nor the orders table; every valid sibling is
\* carried out all the same (in a dry run it succeeds, otherwise its request
\* was sent and it succeeded exactly when its order row was saved); the
\* successful count counts the successful outcomes only, the total count all.
C7_InactiveClientIsolated ==
    bstate = "returned" =>
        \A i \in Tasks :
            TargetsInactive(valid_orders[i]) =>
                /\ ~batch_response.results[i].success
                /\ batch_response.results[i].error_message = "Client is inactive"
                /\ ~\E r \in sent : r.task = i
                /\ \A j \in Tasks \ {i} :
                       ValidInstruction(request, valid_orders[j]) =>
                           IF request.dry_run
                           THEN batch_response.results[j].success
                           ELSE /\ \E r \in sent : r.task = j
                                /\ batch_response.results[j].success
                                      <=> fault[j] = ""
                /\ batch_response.successful_orders =
                       Cardinality({j \in Tasks \ {i} : batch_response.results[j].success})
                /\ batch_response.total_orders = Cardinality(Tasks)
                /\ batch_response.failed_orders =
                       batch_response.total_orders - batch_response.successful_orders

\* C7 witness: a returned batch, not a dry run, with an instruction for an
\* inactive client and a sibling the upstream accepted.
C7_Witness ==
    /\ bstate = "returned"
    /\ ~request.dry_run
    /\ \E i, j \in Tasks :
           /\ TargetsInactive(valid_orders[i])
           /\ batch_response.results[j].success
           /\ batch_response.results[j].order_id = "ORD-D"
           /\ batch_response.successful_orders = 1
           /\ batch_response.total_orders = 2

\* C8: in a dry-run batch no request goes upstream, neither to authenticate
\* nor to place an order, no order row is inserted, and every valid
\* instruction has a successful outcome with the order id "DRY_RUN".
C8_DryRunTouchesNothing ==
    (bstate # "idle" /\ request.dry_run) =>
        /\ sent = {}
        /\ auth_requests = 0
        /\ orders_db = {}
        /\ bstate = "returned" =>
               \A i \in Tasks :
                   ValidInstruction(request, valid_orders[i]) =>
                       /\ batch_response.results[i].success
                       /\ batch_response.results[i].order_id = "DRY_RUN"

\* C8 witness: a dry-run batch of two valid instructions has returned.
C8_Witness ==
    /\ bstate = "returned"
    /\ request.dry_run
    /\ Len(valid_orders) >= 2
    /\ \A i \in Tasks :
           /\ ValidInstruction(request, valid_orders[i])
           /\ batch_response.results[i].order_id = "DRY_RUN"

\* C9: every place-order request sent upstream for an instruction carries the
\* token of a session that authenticate returned for that instruction's
\* client.
C9_PlaceOrderCarriesSessionToken ==
    \A r \in sent :
        /\ r.auth_token # NoTokenValue
        /\ auth_requests > 0
        /\ r.client_id \in DOMAIN auth_tokens
        /\ auth_tokens[r.client_id].token = r.auth_token

\* C10: a batch of kind LMT or SL without a default price in which some
\* instruction has no price of its own is rejected before any instruction
\* starts: no outcome is produced and nothing is sent upstream.
C10_AnyMissingPriceRejectsBatch ==
    (/\ bstate # "idle"
     /\ request.order_type \in {"LMT", "SL"}
     /\ request.default_price = None
     /\ \E k \in 1..Len(request.client_orders) :
            request.client_orders[k].price = None)
    => /\ bstate \in {"received", "rejected"}
       /\ sent = {}
       /\ completed = <<>>

\* No instruction of the batch has a quantity above 0.
NoPositiveQuantity(req) ==
    \A k \in 1..Len(req.client_orders) : req.client_orders[k].quantity <= 0

\* C12 as stated: a batch without an instruction of quantity > 0 returns a
\* result that reports zero processed instructions, and executes nothing.
C12_EmptyBatchReturnsZeroProcessed ==
    (bstate \notin {"idle", "received"} /\ NoPositiveQuantity(request)) =>
        /\ bstate = "returned"
        /\ batch_response.total_orders = 0
        /\ batch_response.results = <<>>
        /\ sent = {}

\* C12 amended: a batch without an instruction of quantity > 0 is refused: the
\* call fails, no result is returned, no instruction is started, nothing is
\* sent upstream and no order row is written.
C12_EmptyBatchRejected ==
    (bstate \notin {"idle", "received"} /\ NoPositiveQuantity(request)) =>
        /\ bstate = "rejected"
        /\ batch_response = NoResponse
        /\ valid_orders = <<>>
        /\ completed = <<>>
        /\ sent = {}
        /\ orders_db = {}

\* C12 witness: a market batch whose only instruction has quantity 0 has been
\* refused.
C12_Witness ==
    /\ bstate = "rejected"
    /\ request.order_type = "MKT"
    /\ Len(request.client_orders) = 1
    /\ request.client_orders[1].quantity = 0
    /\ batch_response = NoResponse

-----------------------------------------------------------------------------
(* Claims about the OrderGateway *)

\* The orders the validation of place_order must refuse: LMT without a price,
\* SL with a price and without a trigger price, a quantity that is not
\* positive, a disclosed quantity above the quantity.
MustBeRefused(od) ==
    \/ od.order_type = "LMT" /\ od.price = None
    \/ od.order_type = "SL" /\ od.price # None /\ od.trigger_price = None
    \/ od.quantity <= 0
    \/ od.disclosed_quantity > od.quantity

ValidationMessages ==
    {"Order quantity must be greater than 0",
     "Price is required and must be greater than 0 for limit orders",
     "Trigger price is required and must be greater than 0 for stop-loss orders",
     "Disclosed quantity cannot be greater than total quantity"}

\* C11: place_order called with an LMT order without price, an SL order with
\* price and without trigger price, a quantity <= 0 or a disclosed quantity
\* above the quantity raises a validation error and sends no request upstream.
C11_InvalidOrderNeverSent ==
    (ppc # "idle" /\ MustBeRefused(order_details)) =>
        /\ ppc = "done"
        /\ place_requests = 0
        /\ place_ret.kind = "error"
        /\ place_ret.error \in ValidationMessages

\* C11 witness: an SL order with a price, a positive quantity and no trigger
\* price has been refused.
C11_Witness ==
    /\ ppc = "done"
    /\ order_details.order_type = "SL"
    /\ order_details.price = Some(10)
    /\ order_details.trigger_price = None
    /\ order_details.quantity > 0
    /\ order_details.disclosed_quantity = 0
    /\ place_requests = 0
    /\ place_ret.error =
           "Trigger price is required and must be greater than 0 for stop-loss orders"

-----------------------------------------------------------------------------
(* Claims about the results of the engine and about the exit variant *)

\* Some per-item outcome of the list is successful.
SomeSuccess(outcomes) == \E k \in 1..Len(outcomes) : outcomes[k].success

\* C13 as stated: the overall flag of a returned batch result and of a
\* returned exit result is true exactly when one of its per-item outcomes is
\* successful.
C13_SuccessIffSomeOutcomeSucceeded ==
    /\ bstate = "returned" =>
           (batch_response.success <=> SomeSuccess(batch_response.results))
    /\ estate = "returned" =>
           (exit_response.success <=> SomeSuccess(exit_response.results))

\* C13 amended: the flag of a returned batch result is true exactly when one
\* of its outcomes is successful; so is the flag of an exit result when some
\* client had a position to exit; an exit that found no position to exit
\* returns the flag true with no successful outcome in its result.
C13_SuccessFlag ==
    /\ bstate = "returned" =>
           (batch_response.success <=> SomeSuccess(batch_response.results))
    /\ estate = "returned" =>
           IF clients_to_exit = <<>>
           THEN exit_response.success /\ ~SomeSuccess(exit_response.results)
           ELSE exit_response.success <=> SomeSuccess(exit_response.results)

\* C13 witness: an exit over two clients has returned with one client
\* succeeded and the other failed, and the flag true.
C13_Witness ==
    /\ estate = "returned"
    /\ Len(clients_to_exit) = 2
    /\ exit_response.success
    /\ \E j, k \in 1..Len(exit_response.results) :
           /\ exit_response.results[j].success
           /\ exit_response.results[j].positions_exited > 0
           /\ ~exit_response.results[k].success

\* The entry of the fetch log of client c
FetchedFor(c) == CHOOSE e \in {fetch_log[i] : i \in 1..Len(fetch_log)} : e.client_id = c

\* The position is not flat and not below the minimum quantity of the request.
Qualifies(pos) ==
    pos.quantity # 0 /\ Abs(pos.quantity) >= exit_request.min_quantity

\* The exit order r is the opposite of position pos: SELL of q for a net
\* quantity q > 0, BUY of |q| for a net quantity q < 0.
Opposes(r, pos) ==
    /\ pos.quantity > 0 => r.transaction_type = "SELL" /\ r.quantity = pos.quantity
    /\ pos.quantity < 0 => r.transaction_type = "BUY" /\ r.quantity = -pos.quantity

\* The client of the log entry is in the exit set.
InExitSet(c) ==
    \E t \in 1..Len(clients_to_exit) : clients_to_exit[t].client_id = c

\* Every quantity of the entry can be read as an integer.
Readable(e) == \A k \in 1..Len(e.positions) : e.positions[k].well_formed

C15_FetchFailureRecorded ==
    estate = "returned" =>
        \A i \in 1..Len(fetch_log) :
            fetch_log[i].failed =>
                /\ ~InExitSet(fetch_log[i].client_id)
                /\ \E k \in 1..Len(exit_response.results) :
                       /\ exit_response.results[k].client_id = fetch_log[i].client_id
                       /\ ~exit_response.results[k].success
                       /\ exit_response.results[k].errors # <<>>

-----------------------------------------------------------------------------
(* Claims about the InstrumentCache *)

\* Caller p enters a route in this step.
RouteEnters(p) == scall[p].pc = "idle" /\ scall'[p].pc # "idle"

\* Caller p's catalog request is answered in this step.
RouteAnswered(p) == scall[p].pc = "fetching" /\ scall'[p].pc = "done"

\* A catalog is stored for the exchange and its TTL has not run out.
EntryWithinTTL(exchange) ==
    exchange \in DOMAIN redis /\ now < redis[exchange].expires_at

\* C16: a search with useCache=true for an exchange for which no catalog is
\* stored sends exactly one catalog request when it goes upstream, and a
\* search with useCache=true for an exchange whose catalog was stored less
\* than a TTL ago sends none, whatever the stored catalog is.
C16_SearchFetchesOncePerTTL ==
    [][\A p \in Callers :
          (/\ RouteEnters(p)
           /\ scall'[p].op = "search"
           /\ scall'[p].use_cache
           /\ scall'[p].exchange \in valid_exchanges) =>
              IF EntryWithinTTL(scall'[p].exchange)
              THEN /\ catalog_fetches' = catalog_fetches
                   /\ scall'[p].pc = "done"
              ELSE scall'[p].pc = "fetching" =>
                       catalog_fetches' = catalog_fetches + 1]_vars

Matches(r, ql) ==
    \/ IsIn(ql, lower(r.symbol))
    \/ IsIn(ql, lower(r.name))
    \/ IsIn(ql, lower(r.token))

\* The record's symbol begins with the query, letter case set aside.
SymbolBegins(r, ql) ==
    /\ Len(ql) <= Len(r.symbol)
    /\ \A i \in 1..Len(ql) : lower(r.symbol)[i] = ql[i]

\* The matching records of a catalog: exact symbol matches, then symbol-prefix
\* matches, then the other matches, each tier in catalog order.
Ranked(catalog, ql) ==
    SelectSeq(catalog, LAMBDA r : Matches(r, ql) /\ lower(r.symbol) = ql)
    \o SelectSeq(catalog, LAMBDA r : /\ Matches(r, ql)
                                        /\ lower(r.symbol) # ql
                                        /\ SymbolBegins(r, ql))
    \o SelectSeq(catalog, LAMBDA r : Matches(r, ql) /\ ~SymbolBegins(r, ql))

\* The first n elements of a sequence, all of them when it has fewer.
FirstN(seq, n) == [i \in 1..(IF n < Len(seq) THEN n ELSE Len(seq)) |-> seq[i]]

\* C18 as stated: a search returns the ranked matching records of the catalog,
\* truncated to the limit.
C18_SearchReturnsRankedMatches ==
    filter_output # NoRouteReturn =>
        /\ filter_output.kind = "ok"
        /\ filter_output.data =
               FirstN(Ranked(filter_input.instruments_data, lower(filter_input.q)),
                      filter_input.limit)

\* What C18 amended expects of a search
ExpectedResults ==
    IF Len(filter_input.q) < 2
    THEN FirstN(FirstN(filter_input.instruments_data, 100), filter_input.limit)
    ELSE FirstN(FirstN(Ranked(filter_input.instruments_data, lower(filter_input.q)), 50),
                filter_input.limit)

\* C18 amended: for a query of two characters or more a search returns the
\* first 50 of the ranked matching records (exact symbol, symbol prefix,
\* others, catalog order inside a tier), truncated to the limit; for a query
\* of one character it returns the first 100 records of the catalog as they
\* are, truncated to the limit; and it fails instead when one of the records
\* to return lacks a field the response schema requires.
C18_SearchResults ==
    filter_output # NoRouteReturn =>
        IF \A k \in 1..Len(ExpectedResults) : ExpectedResults[k].conforms
        THEN filter_output.kind = "ok" /\ filter_output.data = ExpectedResults
        ELSE filter_output.kind = "error"

\* C18 witness: for the query "rel" and the limit 2, the catalog RELX, XREL,
\* REL gives REL, then RELX.
C18_Witness ==
    /\ filter_input.q = <<"r", "e", "l">>
    /\ filter_input.limit = 2
    /\ Len(filter_input.instruments_data) = 3
    /\ filter_input.instruments_data[1].symbol = <<"R", "E", "L", "X">>
    /\ filter_input.instruments_data[2].symbol = <<"X", "R", "E", "L">>
    /\ filter_input.instruments_data[3].symbol = <<"R", "E", "L">>
    /\ filter_output.kind = "ok"
    /\ filter_output.data = <<filter_input.instruments_data[3],
                              filter_input.instruments_data[1]>>

-----------------------------------------------------------------------------
(* Claims about the synchronous methods of the token store *)

\* The method op of the store is called, and returns, in this step.
StoreCalled(op) == store_ret = <<>> /\ store_ret' # <<>> /\ store_ret'.op = op

\* C19: invalidate_token(client_id) returns TRUE exactly when a session was
\* stored for the client before the call; after the call none is stored for
\* the client, and the sessions of the other clients are as they were.
C19_InvalidateRemovesThatSessionOnly ==
    [][StoreCalled("invalidate_token") =>
          LET c == store_ret'.client_id
          IN  /\ store_ret'.value = (c \in DOMAIN auth_tokens)
              /\ c \notin DOMAIN auth_tokens'
              /\ DOMAIN auth_tokens' = DOMAIN auth_tokens \ {c}
              /\ \A x \in DOMAIN auth_tokens \ {c} :
                     auth_tokens'[x] = auth_tokens[x]]_vars

\* C19 witness: invalidate_token has returned TRUE for a client, no session is
\* stored for that client, and the session of another client is still stored.
C19_Witness ==
    /\ store_ret # <<>>
    /\ store_ret.op = "invalidate_token"
    /\ store_ret.value = TRUE
    /\ store_ret.client_id \notin DOMAIN auth_tokens
    /\ \E x \in DOMAIN auth_tokens :
           x # store_ret.client_id /\ auth_tokens[x].client_id = x

\* C20: get_cached_token(client_id) returns the stored session and leaves the
\* store as it was when a session is stored for the client with
\* now < expires_at; otherwise it returns None, and afterwards no session is
\* stored for the client (an expired one is removed) while the sessions of
\* the other clients are as they were. A session it returns is not expired
\* when it returns.
C20_GetCachedReturnsLiveSessionOnly ==
    [][StoreCalled("get_cached_token") =>
          LET c == store_ret'.client_id
              v == store_ret'.value
          IN  /\ IF c \in DOMAIN auth_tokens /\ now < auth_tokens[c].expires_at
                 THEN v = Some(auth_tokens[c]) /\ auth_tokens' = auth_tokens
                 ELSE /\ v = None
                      /\ DOMAIN auth_tokens' = DOMAIN auth_tokens \ {c}
                      /\ \A x \in DOMAIN auth_tokens \ {c} :
                             auth_tokens'[x] = auth_tokens[x]
              /\ v # None => now' < v[1].expires_at]_vars

\* C20 witness: the session authenticate_client has just returned to its
\* caller has expired since, get_cached_token has returned None for its
\* client, and no session is stored for that client.
C20_Witness ==
    /\ store_ret # <<>>
    /\ store_ret.op = "get_cached_token"
    /\ store_ret.value = None
    /\ store_ret.client_id \notin DOMAIN auth_tokens
    /\ apc[1] = "done"
    /\ aret[1].kind = "token"
    /\ aret[1].token.client_id = store_ret.client_id
    /\ now >= aret[1].token.expires_at

-----------------------------------------------------------------------------
(* Claims about segments, credentials and racing authentications *)

\* Caller p's call of authenticate_client returns a session in this step.
ReturnsSession(p) == apc[p] # "done" /\ apc'[p] = "done" /\ aret'[p].kind = "token"

\* C21: the session authenticate(client, segment) returns was obtained with
\* the credentials of the requested segment, and it is the one session the
\* store then holds for the client, also when a valid session obtained with
\* the other segment's credentials was cached at the call.
C21_SegmentSwitchReplaces ==
    [][\A p \in Callers :
          ReturnsSession(p) =>
              /\ aret'[p].token.token.segment = aargs'[p].segment
              /\ aargs'[p].client_id \in DOMAIN auth_tokens'
              /\ auth_tokens'[aargs'[p].client_id] = aret'[p].token]_vars

\* One of the four base fields of the segment's credentials is missing or
\* holds nothing but blanks.
FieldMissingOrEmpty(cid, segment) ==
    LET enc == SegmentCreds(ClientRow(cid), segment)
    IN  \E f \in {"api_key", "secret_key", "user_id", "password"} :
            enc[f] \in {EncNone, EncBlank}

\* C22: authenticate entered on the non-cached path (refresh forced, or no
\* session stored for the client, or an expired one) for a segment one of
\* whose four base credential fields is missing or empty fails at once: no
\* auth request is sent and the store stays as it was.
C22_MissingCredentialsFailBeforeNetwork ==
    [][\A p \in Callers :
          (/\ Enters(p)
           /\ aargs'[p].force_refresh \/ NoUsableSessionFor(aargs'[p].client_id)
           /\ FieldMissingOrEmpty(aargs'[p].client_id, aargs'[p].segment))
          => /\ apc'[p] = "done"
             /\ aret'[p].kind = "error"
             /\ auth_requests' = auth_requests
             /\ auth_tokens' = auth_tokens]_vars

\* C22 witness: a forced refresh for the segment of a client whose api key is
\* missing has failed without an auth request, while the store holds the valid
\* session the client obtained with its other segment.
C22_Witness ==
    \E p \in Callers :
        /\ apc[p] = "done"
        /\ aret[p].kind = "error"
        /\ aargs[p].serial = 0
        /\ aargs[p].force_refresh
        /\ FieldMissingOrEmpty(aargs[p].client_id, aargs[p].segment)
        /\ SegmentCreds(ClientRow(aargs[p].client_id), aargs[p].segment).api_key = EncNone
        /\ ValidSessionFor(aargs[p].client_id)

\* C23: while a call of authenticate for a client awaits the answer to its
\* auth request, a second call for the same client, entered with no valid
\* session cached and no refresh forced, sends no auth request of its own: it
\* waits for the first or shares its result.
C23_SameClientAuthSerialized ==
    [][\A p, o \in Callers :
          (/\ p # o
           /\ Enters(p)
           /\ ~aargs'[p].force_refresh
           /\ NoUsableSessionFor(aargs'[p].client_id)
           /\ apc[o] = "awaiting"
           /\ aargs[o].client_id = aargs'[p].client_id)
          => auth_requests' = auth_requests]_vars

-----------------------------------------------------------------------------
(* Claims about persistence, admission order and termination of a batch *)

\* C24: an instruction whose order the upstream accepted and whose order row
\* could not be committed has an outcome that reports the upstream order id.
C24_UnrecordedOrderKeepsOrderId ==
    \A i \in Tasks :
        fault[i] = "db.commit() failed" => results[i].order_id # ""

\* C25: the tasks queue at the semaphore in input order, and no instruction is
\* past the gate while an instruction before it in the input still waits at
\* it.
C25_FirstQueuedFirstAdmitted ==
    /\ \A a, b \in 1..Len(sem_waiters) :
           a < b => sem_waiters[a] < sem_waiters[b]
    /\ \A i, j \in Tasks :
           (j < i /\ tpc[j] = "waiting") => tpc[i] \in {"created", "waiting"}

\* C25 witness: with one slot and three instructions, the first has finished
\* after its order went upstream, the second, which had queued, has been
\* admitted and its order is upstream, and the third still waits.
C25_Witness ==
    /\ bstate = "running"
    /\ request.max_concurrent = 1
    /\ Len(valid_orders) = 3
    /\ tpc[1] = "done" /\ PlaceRequest(1, valid_orders[1]) \in sent
    /\ tpc[2] = "upstream"
    /\ tpc[3] = "waiting"
    /\ sem_waiters = <<3>>

\* C30: when every place-order request is answered and every ready task is
\* run, the batch returns: every task has finished, every slot of the
\* semaphore is free, no task is queued, and the response holds one outcome
\* per instruction.
C30_BatchTerminates ==
    <>(/\ bstate = "returned"
       /\ \A i \in Tasks : tpc[i] = "done"
       /\ sem_value = request.max_concurrent
       /\ sem_waiters = <<>>
       /\ Len(batch_response.results) = Len(request.client_orders))

\* C30 witness: a batch of three instructions over one slot has returned with
\* a failed and a successful outcome, and the slot is free.
C30_Witness ==
    /\ bstate = "returned"
    /\ request.max_concurrent = 1
    /\ Len(request.client_orders) = 3
    /\ Len(batch_response.results) = 3
    /\ batch_response.successful_orders >= 1
    /\ batch_response.failed_orders >= 1
    /\ sem_value = 1

-----------------------------------------------------------------------------
(* Claims about the classification of upstream responses *)

\* The known token fields, in the order they are tried.
KnownTokenFields == <<"AuthToken", "authToken", "token", "access_token">>

\* The first of the known token fields the response holds.
FirstTokenField(response) ==
    KnownTokenFields[CHOOSE k \in 1..4 :
                        /\ KnownTokenFields[k] \in response.fields
                        /\ \A j \in 1..(k - 1) : KnownTokenFields[j] \notin response.fields]

\* The status code is one of 200..299.
Is2xx(response) == response.code >= 200 /\ response.code < 300

\* C26 as stated: a non-2xx response fails; a 2xx response fails exactly when
\* it holds none of the known token fields, and otherwise succeeds with the
\* first of them.
C26_TokenFieldDecides ==
    auth_outcome # <<>> =>
        IF Is2xx(auth_response) /\ auth_response.fields # {}
        THEN /\ auth_outcome.ok
             /\ auth_outcome.field = FirstTokenField(auth_response)
        ELSE ~auth_outcome.ok

\* C26 amended: authenticate succeeds exactly when the response has status
\* code 200, its body has status "success" or a non-empty AuthToken field, and
\* one of the known token fields is present and non-empty; it then takes the
\* session token from the first such field in the order AuthToken, authToken,
\* token, access_token. Every other response fails.
C26_AuthResponseClassified ==
    auth_outcome # <<>> =>
        IF /\ auth_response.code = 200
           /\ auth_response.status = "success" \/ "AuthToken" \in auth_response.fields
           /\ auth_response.fields # {}
        THEN /\ auth_outcome.ok
             /\ auth_outcome.field = FirstTokenField(auth_response)
        ELSE ~auth_outcome.ok /\ auth_outcome.field = ""

\* C26 witness: a 200 response with status "success" that holds the fields
\* token and access_token has been accepted with the field token.
C26_Witness ==
    /\ auth_outcome # <<>>
    /\ auth_response.code = 200
    /\ auth_response.status = "success"
    /\ auth_response.fields = {"token", "access_token"}
    /\ auth_outcome.ok
    /\ auth_outcome.field = "token"

\* The text of the response's message, "" when it has none.
MessageText(resp) ==
    IF resp.message = None \/ resp.message = Some(JsonNull)
    THEN <<>> ELSE resp.message[1]

\* The message holds one of the words success, successful, completed, done,
\* letter case set aside.
HasSuccessKeyword(resp) ==
    \E w \in {<<"s", "u", "c", "c", "e", "s", "s">>,
              <<"s", "u", "c", "c", "e", "s", "s", "f", "u", "l">>,
              <<"c", "o", "m", "p", "l", "e", "t", "e", "d">>,
              <<"d", "o", "n", "e">>} :
        IsIn(w, lower(MessageText(resp)))

\* One of the three signs of success the heuristic knows.
LooksSuccessful(resp) ==
    \/ resp.status = "success"
    \/ HasSuccessKeyword(resp)
    \/ resp.data = "success"

\* C27 as stated: for a 2xx response cancelOrder and modifyOrder return
\* success exactly when the response shows one of the three signs of success,
\* and not-successful otherwise.
C27_HeuristicDecidesEvery2xx ==
    (op_outcome # <<>> /\ op_response.code >= 200 /\ op_response.code < 300) =>
        /\ ~op_outcome.raised
        /\ op_outcome.success = LooksSuccessful(op_response)

\* C27 amended: cancelOrder and modifyOrder fail with an error when the
\* response is not a 200, when a 200 response has neither top-level status
\* "success" nor a data section, and when its message is null while its
\* status is not "success"; for every other response they return success
\* exactly when it shows one of the three signs of success, and
\* not-successful otherwise.
C27_OrderOperationResult ==
    op_outcome # <<>> =>
        IF \/ op_response.code # 200
           \/ op_response.status # "success" /\ op_response.data = "absent"
           \/ op_response.status # "success" /\ op_response.message = Some(JsonNull)
        THEN op_outcome.raised
        ELSE /\ ~op_outcome.raised
             /\ op_outcome.success = LooksSuccessful(op_response)

\* C27 witness: a 200 response with status "error", a data section without
\* status and the message "DONE" has been taken for a success.
C27_Witness ==
    /\ op_outcome # <<>>
    /\ op_response.code = 200
    /\ op_response.status = "error"
    /\ op_response.data = "other"
    /\ op_response.message = Some(<<"D", "O", "N", "E">>)
    /\ ~op_outcome.raised
    /\ op_outcome.success

-----------------------------------------------------------------------------
(* A further claim about the InstrumentCache *)

\* C28: when a search that went upstream, with or without useCache, returns
\* results, the catalog it fetched is stored under the exchange with a full
\* TTL from now, whatever was stored there before.
C28_MissPathAlwaysStores ==
    [][\A p \in Callers :
          (/\ RouteAnswered(p)
           /\ scall[p].op = "search"
           /\ sret'[p].kind = "ok"
           /\ redis_up)
          => /\ scall[p].exchange \in DOMAIN redis'
             /\ redis'[scall[p].exchange].expires_at = now + CacheTTL]_vars

-----------------------------------------------------------------------------
(* A further claim about the SessionManager *)

\* Caller p's call of authenticate_client fails in this step.
Fails(p) == apc[p] # "done" /\ apc'[p] = "done" /\ aret'[p].kind = "error"

\* C29: a call of authenticate leaves the store as it is when it enters, and
\* leaves it as it is when it fails, whether it fails at the credentials or
\* at the answer to its auth request: no session is added, removed or altered.
C29_FailedAuthLeavesStore ==
    [][\A p \in Callers :
          (Enters(p) \/ Fails(p)) => auth_tokens' = auth_tokens]_vars

\* C29 witness: a forced refresh for a client has sent its auth request and
\* failed at the answer, and the store holds the valid session the client had,
\* issued to an earlier request.
C29_Witness ==
    \E p \in Callers :
        /\ apc[p] = "done"
        /\ aret[p].kind = "error"
        /\ aargs[p].force_refresh
        /\ aargs[p].serial > 0
        /\ ValidSessionFor(aargs[p].client_id)
        /\ auth_tokens[aargs[p].client_id].token.serial < aargs[p].serial

====
